---- MODULE Spec2Model ----
(***************************************************************************)
(* A model of the linux-futex crate: the six-slot futex syscall builder    *)
(* (sys.rs), the operation-and-comparison word encoder (op.rs), the        *)
(* timeout conversion (timeout.rs), the scope flag (scope.rs) and the      *)
(* facade operations of Futex<S> and PiFutex<S> with their result          *)
(* classification (lib.rs).  The kernel side of SYS_futex is the           *)
(* environment the facade calls through FutexCall::call; it is modelled as *)
(* wait queues keyed by cell, following the behaviour the crate documents  *)
(* for each operation and futex(2).                                        *)
(***************************************************************************)
EXTENDS Integers, Sequences, FiniteSets, TLC

VARIABLES
    scope,   \* the scope tag S of every cell of the run: "Private" or "Shared"
    value,   \* value[c]: the AtomicI32 of cell c
    queue,   \* queue[c]: the kernel's wait queue of cell c, oldest waiter first
    pc,      \* pc[t]: "ready" (in user space) or "blocked" (asleep in the kernel)
    call,    \* call[t]: the FutexCall of t's current or last operation
    ret,     \* ret[t]: the classified outcome of t's last completed operation
    seen,    \* seen[t]: the cell value the kernel compared when t's call entered
    slept,   \* slept[t]: whether t's current or last call was put to sleep
    cause,   \* cause[t]: the event that ended t's last sleep
    script,  \* script[t]: position of t in a scripted scenario
    enc,     \* the Op / Cmp / OpAndCmp construction under examination
    err      \* the raw kernel outcome under classification

vars == <<scope, value, queue, pc, call, ret, seen, slept, cause, script, enc, err>>

----------------------------------------------------------------------------
(* Bounds of the model.                                                    *)

\* number of threads of the concurrent specifications
NThreads == 3
\* cell values range over 0..MaxValue
MaxValue == 1
\* wake counts range over 1..MaxWake
MaxWake == 2
\* cell values of the wake_op specification range over 0..MaxOpValue
MaxOpValue == 4
\* the constructor arguments examined are 2^i - 1, 2^i for i up to MaxArgBit
MaxArgBit == 13

----------------------------------------------------------------------------
(* libc constants used by the crate.                                       *)

FUTEX_WAIT == 0
FUTEX_WAKE == 1
FUTEX_REQUEUE == 3
FUTEX_CMP_REQUEUE == 4
FUTEX_WAKE_OP == 5
FUTEX_LOCK_PI == 6
FUTEX_UNLOCK_PI == 7
FUTEX_TRYLOCK_PI == 8
FUTEX_WAIT_BITSET == 9
FUTEX_WAKE_BITSET == 10
FUTEX_WAIT_REQUEUE_PI == 11
FUTEX_CMP_REQUEUE_PI == 12
FUTEX_LOCK_PI2 == 13
FUTEX_PRIVATE_FLAG == 128
FUTEX_CLOCK_REALTIME == 256

EPERM == 1
ESRCH == 3
EINTR == 4
EAGAIN == 11
EFAULT == 14
EINVAL == 22
EDEADLK == 35
ENOSYS == 38
ETIMEDOUT == 110

\* PiFutex::OWNER_DIED and PiFutex::TID_MASK (PiFutex::WAITERS is I32_MIN, below)
OWNER_DIED == 1073741824
TID_MASK == 1073741823

----------------------------------------------------------------------------
(* Fixed-width integers.  An i32 is an integer of -2^31 .. 2^31 - 1.  A    *)
(* u32 is the set of the positions of its 1-bits, so that `|`, `&`, `<<`   *)
(* and `>>` are computed bit by bit as the machine does.                   *)

Pow2(n) == 2 ^ n

I32_MAX == 2147483647
I32_MIN == -I32_MAX - 1

\* PiFutex::WAITERS: i32 = -0x8000_0000
WAITERS == I32_MIN

\* the u32 holding the natural number n < 2^31
RECURSIVE U32(_)
U32(n) == IF n = 0 THEN {} ELSE (IF n % 2 = 1 THEN {0} ELSE {}) \cup {i + 1 : i \in U32(n \div 2)}

RECURSIVE SumBits(_)
SumBits(w) == IF w = {} THEN 0 ELSE LET i == CHOOSE j \in w : TRUE IN Pow2(i) + SumBits(w \ {i})

\* `w as i32`: the two's complement reading of a u32
AsI32(w) == IF 31 \in w THEN I32_MIN + SumBits(w \ {31}) ELSE SumBits(w)

\* `x as u32`: the bits of an i32
AsU32(x) == IF x < 0 THEN U32(x - I32_MIN) \cup {31} ELSE U32(x)

BitOr(a, b) == a \cup b
BitAnd(a, b) == a \cap b
BitXor(a, b) == (a \ b) \cup (b \ a)
BitNot(a) == (0..31) \ a

\* u32 `<<` and `>>`
Shl32(w, n) == {i + n : i \in w} \cap (0..31)
Shr32(w, n) == {i - n : i \in w} \cap (0..31)

\* i32 wrapping addition
WrappingAdd(a, b) ==
    IF b > 0 /\ a > I32_MAX - b THEN I32_MIN + (a - (I32_MAX - b) - 1)
    ELSE IF b < 0 /\ a < I32_MIN - b THEN I32_MAX - ((I32_MIN - b) - a - 1)
    ELSE a + b

----------------------------------------------------------------------------
(* op.rs: the operation-and-comparison word.                               *)

\* a constructor either panics and leaves no value, or builds its bits
Panicked == [panic |-> TRUE, bits |-> {}]
Built(b) == [panic |-> FALSE, bits |-> b]

\* Op::new accepting the value 1 << 12
Op_new_off_by_one(op, v) ==
    IF v > Pow2(12) THEN Panicked
    ELSE Built(BitOr(Shl32(U32(v), 12), Shl32(U32(op), 28)))

\* Op::new(op, value), value given as a natural number
Op_new(op, v) ==
    IF v >= Pow2(12) THEN Panicked
    ELSE Built(BitOr(Shl32(U32(v), 12), Shl32(U32(op), 28)))

\* the op-codes of Op::assign .. Op::toggle_bit
OpCodes == {0, 1, 2, 3, 4, 8, 9, 10, 11, 12}

\* Cmp::new placing its code where Op::new places its own
Cmp_new_at_28(op, v) ==
    IF v >= Pow2(12) THEN Panicked
    ELSE Built(BitOr(U32(v), Shl32(U32(op), 28)))

\* Cmp::new(op, value), value given as a natural number
Cmp_new(op, v) ==
    IF v >= Pow2(12) THEN Panicked
    ELSE Built(BitOr(U32(v), Shl32(U32(op), 24)))

\* the op-codes of Cmp::eq .. Cmp::ge
CmpCodes == {0, 1, 2, 3, 4, 5}

\* impl Add<Cmp> for Op
Op_add(opbits, cmpbits) == BitOr(opbits, cmpbits)

\* OpAndCmp::raw_bits
raw_bits(bits) == bits

\* what impl Debug for Op reads back from the bits
Op_fmt(bits) ==
    [op |-> SumBits(Shr32(bits, 28)), arg |-> SumBits(BitAnd(Shr32(bits, 12), U32(4095)))]

\* what impl Debug for Cmp reads back from the bits
Cmp_fmt(bits) ==
    [op |-> SumBits(BitAnd(Shr32(bits, 24), U32(15))), arg |-> SumBits(BitAnd(bits, U32(4095)))]

\* what impl Debug for OpAndCmp reads back from the bits
OpAndCmp_fmt(bits) == [op |-> Op_fmt(bits), cmp |-> Cmp_fmt(bits)]

----------------------------------------------------------------------------
(* The threads and the cells.                                              *)

Threads == 1..NThreads

\* the kernel's id of thread t, as stored in the TID bits of a PI cell
Tid(t) == t

\* the cells used as Futex<S>
PlainCells == {"f", "g"}
\* the cell used as PiFutex<S>
PiCells == {"p"}
Cells == PlainCells \cup PiCells

Values == 0..MaxValue

----------------------------------------------------------------------------
(* scope.rs                                                                *)

\* Scope::futex_flag of Private and of Shared
futex_flag_swapped(S) == IF S = "Shared" THEN FUTEX_PRIVATE_FLAG ELSE 0
futex_flag(S) == IF S = "Private" THEN FUTEX_PRIVATE_FLAG ELSE 0

----------------------------------------------------------------------------
(* timeout.rs                                                              *)

\* a Duration is [secs, nanos]: secs is a u64, held as the set of its
\* 1-bits (bit i counts 2^i), and nanos is a number below 10^9
Durations == {[secs |-> {}, nanos |-> 1], [secs |-> {0}, nanos |-> 500000000]}

\* as_timespec(d): d.as_secs() as time_t, d.subsec_nanos() as c_long, where
\* time_t and c_long are i64 (as on x86_64 and aarch64).  An i64 is held as
\* its sign and the set of the 1-bits of its magnitude; `as` keeps the 64
\* bits, so a u64 with bit 63 set is read as the negative number whose
\* magnitude is its two's complement.
as_timespec(d) ==
    LET s == d.secs
        z == CHOOSE i \in s : \A j \in s : i <= j
    IN  [tv_sec |-> IF 63 \in s
                    THEN [neg |-> TRUE, mag |-> {z} \cup {i \in (z + 1)..63 : i \notin s}]
                    ELSE [neg |-> FALSE, mag |-> s],
         tv_nsec |-> d.nanos]

----------------------------------------------------------------------------
(* sys.rs: the six-slot call.  The fourth slot holds either a pointer to a *)
(* timespec or an integer (val2); the null pointer is the integer 0.       *)

NullPtr == [isptr |-> FALSE, word |-> 0, tv_sec |-> [neg |-> FALSE, mag |-> {}], tv_nsec |-> 0]

\* FutexCall::new(), entered by the facade operation `name`
FutexCall_new(name) ==
    [name |-> name, uaddr |-> "null", futex_op |-> 0, val |-> 0,
     timeout |-> NullPtr, uaddr2 |-> "null", val3 |-> 0]

uaddr(c, a) == [c EXCEPT !.uaddr = a]
futex_op(c, op) == [c EXCEPT !.futex_op = op]
val(c, v) == [c EXCEPT !.val = v]
timeout(c, ts) ==
    [c EXCEPT !.timeout = [isptr |-> TRUE, word |-> 0, tv_sec |-> ts.tv_sec, tv_nsec |-> ts.tv_nsec]]
val2(c, v) ==
    [c EXCEPT !.timeout = [isptr |-> FALSE, word |-> v, tv_sec |-> NullPtr.tv_sec, tv_nsec |-> 0]]
uaddr2(c, a) == [c EXCEPT !.uaddr2 = a]
val3(c, v) == [c EXCEPT !.val3 = v]

\* what libc::syscall hands back: the return value and errno
SysOk(n) == [result |-> n, errno |-> 0]
SysErr(e) == [result |-> -1, errno |-> e]

\* Result<i32, Error>
Ok(v) == [ok |-> TRUE, v |-> v]
Err(e) == [ok |-> FALSE, v |-> e]

\* the tail of FutexCall::call: -1 becomes Err(Error(errno))
FutexCall_call(sr) == IF sr.result = -1 THEN Err(sr.errno) ELSE Ok(sr.result)

----------------------------------------------------------------------------
(* errors.rs and the match blocks of lib.rs: the outcome each operation    *)
(* makes of the Result<i32, Error> of its call.                            *)

\* Ok(()) and Ok(v)
OkUnit == [tag |-> "Ok", n |-> 0, msg |-> ""]
OkCount(v) == [tag |-> "Ok", n |-> v, msg |-> ""]
\* Err(WrongValue), Err(Interrupted), Err(TimedOut), Err(TryAgain)
Fail(variant) == [tag |-> variant, n |-> 0, msg |-> ""]
\* Error::panic(name)
Panic(name) == [tag |-> "Panic", n |-> 0, msg |-> name]
\* no operation completed yet
NoOutcome == [tag |-> "None", n |-> 0, msg |-> ""]

IsErr(r, e) == ~r.ok /\ r.v = e

\* match_wait with the two foreseen codes mixed up
match_wait_swapped(r) ==
    IF IsErr(r, EAGAIN) THEN Fail("Interrupted")
    ELSE IF IsErr(r, EINTR) THEN Fail("WrongValue")
    ELSE IF ~r.ok THEN Panic("FUTEX_WAIT")
    ELSE OkUnit

match_wait(r) ==
    IF IsErr(r, EAGAIN) THEN Fail("WrongValue")
    ELSE IF IsErr(r, EINTR) THEN Fail("Interrupted")
    ELSE IF ~r.ok THEN Panic("FUTEX_WAIT")
    ELSE OkUnit

match_wait_for(r) ==
    IF IsErr(r, EAGAIN) THEN Fail("WrongValue")
    ELSE IF IsErr(r, EINTR) THEN Fail("Interrupted")
    ELSE IF IsErr(r, ETIMEDOUT) THEN Fail("TimedOut")
    ELSE IF ~r.ok THEN Panic("FUTEX_WAIT")
    ELSE OkUnit

\* match_wake returning a count where the call failed
match_wake_drops_error(r) == IF ~r.ok THEN OkCount(0) ELSE OkCount(r.v)

match_wake(r) == IF ~r.ok THEN Panic("FUTEX_WAKE") ELSE OkCount(r.v)

match_requeue(r) == IF ~r.ok THEN Panic("FUTEX_REQUEUE") ELSE OkCount(r.v)

match_cmp_requeue(r) ==
    IF IsErr(r, EAGAIN) THEN Fail("WrongValue")
    ELSE IF ~r.ok THEN Panic("FUTEX_CMP_REQUEUE")
    ELSE OkCount(r.v)

match_wait_bitset(r) ==
    IF IsErr(r, EAGAIN) THEN Fail("WrongValue")
    ELSE IF IsErr(r, EINTR) THEN Fail("Interrupted")
    ELSE IF ~r.ok THEN Panic("FUTEX_WAIT_BITSET")
    ELSE OkUnit

\* match_wait_bitset_until without the arm for EINTR
match_wait_bitset_until_no_eintr(r) ==
    IF IsErr(r, EAGAIN) THEN Fail("WrongValue")
    ELSE IF IsErr(r, ETIMEDOUT) THEN Fail("TimedOut")
    ELSE IF ~r.ok THEN Panic("FUTEX_WAIT_BITSET")
    ELSE OkUnit

match_wait_bitset_until(r) ==
    IF IsErr(r, EAGAIN) THEN Fail("WrongValue")
    ELSE IF IsErr(r, EINTR) THEN Fail("Interrupted")
    ELSE IF IsErr(r, ETIMEDOUT) THEN Fail("TimedOut")
    ELSE IF ~r.ok THEN Panic("FUTEX_WAIT_BITSET")
    ELSE OkUnit

match_wake_bitset(r) == IF ~r.ok THEN Panic("FUTEX_WAKE_BITSET") ELSE OkCount(r.v)

match_wake_op(r) == IF ~r.ok THEN Panic("FUTEX_WAKE_OP") ELSE OkCount(r.v)

match_cmp_requeue_pi(r) ==
    IF IsErr(r, EAGAIN) THEN Fail("TryAgain")
    ELSE IF ~r.ok THEN Panic("FUTEX_CMP_REQUEUE_PI")
    ELSE OkCount(r.v)

\* match_wait_requeue_pi taking EAGAIN for success
match_wait_requeue_pi_swallows(r) ==
    IF IsErr(r, EAGAIN) THEN OkUnit
    ELSE IF ~r.ok THEN Panic("FUTEX_WAIT_REQUEUE_PI")
    ELSE OkUnit

match_wait_requeue_pi(r) ==
    IF IsErr(r, EAGAIN) THEN Fail("TryAgain")
    ELSE IF ~r.ok THEN Panic("FUTEX_WAIT_REQUEUE_PI")
    ELSE OkUnit

match_wait_requeue_pi_until(r) ==
    IF IsErr(r, EAGAIN) THEN Fail("TryAgain")
    ELSE IF IsErr(r, ETIMEDOUT) THEN Fail("TimedOut")
    ELSE IF ~r.ok THEN Panic("FUTEX_WAIT_REQUEUE_PI")
    ELSE OkUnit

match_lock_pi(r) ==
    IF IsErr(r, EAGAIN) THEN Fail("TryAgain")
    ELSE IF ~r.ok THEN Panic("FUTEX_LOCK_PI")
    ELSE OkUnit

\* op is the base op-code lock_pi_until chose
match_lock_pi_until(r, op) ==
    IF IsErr(r, EAGAIN) THEN Fail("TryAgain")
    ELSE IF IsErr(r, ETIMEDOUT) THEN Fail("TimedOut")
    ELSE IF ~r.ok /\ op = FUTEX_LOCK_PI2 THEN Panic("FUTEX_LOCK_PI2")
    ELSE IF ~r.ok THEN Panic("FUTEX_LOCK_PI")
    ELSE OkUnit

\* trylock_pi taking EAGAIN for success
match_trylock_pi_swallows(r) ==
    IF ~r.ok /\ ~IsErr(r, EAGAIN) THEN Panic("FUTEX_LOCK_PI")
    ELSE OkUnit

match_trylock_pi(r) ==
    IF IsErr(r, EAGAIN) THEN Fail("TryAgain")
    ELSE IF ~r.ok THEN Panic("FUTEX_LOCK_PI")
    ELSE OkUnit

match_unlock_pi(r) == IF ~r.ok THEN Panic("FUTEX_UNLOCK_PI") ELSE OkUnit

\* the operations of Futex<S> and PiFutex<S>
Operations ==
    {"wait", "wait_for", "wake", "requeue", "cmp_requeue", "wait_bitset",
     "wait_bitset_until", "wake_bitset", "wake_op", "cmp_requeue_pi",
     "wait_requeue_pi", "wait_requeue_pi_until", "lock_pi", "lock_pi_until",
     "trylock_pi", "unlock_pi"}

\* the command bits of an op-code: the kernel's FUTEX_CMD_MASK
Cmd(op) == op % FUTEX_PRIVATE_FLAG

\* the match block of operation `name`, applied to the result r of call c
Classify(c, r) ==
    CASE c.name = "wait" -> match_wait(r)
      [] c.name = "wait_for" -> match_wait_for(r)
      [] c.name = "wake" -> match_wake(r)
      [] c.name = "requeue" -> match_requeue(r)
      [] c.name = "cmp_requeue" -> match_cmp_requeue(r)
      [] c.name = "wait_bitset" -> match_wait_bitset(r)
      [] c.name = "wait_bitset_until" -> match_wait_bitset_until(r)
      [] c.name = "wake_bitset" -> match_wake_bitset(r)
      [] c.name = "wake_op" -> match_wake_op(r)
      [] c.name = "cmp_requeue_pi" -> match_cmp_requeue_pi(r)
      [] c.name = "wait_requeue_pi" -> match_wait_requeue_pi(r)
      [] c.name = "wait_requeue_pi_until" -> match_wait_requeue_pi_until(r)
      [] c.name = "lock_pi" -> match_lock_pi(r)
      [] c.name = "lock_pi_until" -> match_lock_pi_until(r, Cmd(c.futex_op))
      [] c.name = "trylock_pi" -> match_trylock_pi(r)
      [] c.name = "unlock_pi" -> match_unlock_pi(r)

----------------------------------------------------------------------------
(* The kernel side of SYS_futex, reached through FutexCall::call.  A call  *)
(* either returns at once or puts its thread to sleep on the wait queue of *)
(* its cell; a sleeping thread's call is completed by the step that ends   *)
(* its sleep, and the thread then classifies the result with the match     *)
(* block of the operation it is in.                                        *)

Min(a, b) == IF a < b THEN a ELSE b

\* the first k entries of a queue, as a set, and the queue without them
Front(q, k) == {q[i] : i \in 1..k}
Rest(q, k) == SubSeq(q, k + 1, Len(q))

Without(q, t) == SelectSeq(q, LAMBDA u : u # t)

\* The observation variables call, ret, seen, slept and cause describe, for
\* a sleeping thread, the call it sleeps in, and for a thread whose call
\* was completed by the latest step, that call and its outcome; they are
\* blank for every other thread.
Blank(x, blank) == [u \in Threads |-> IF pc[u] = "blocked" THEN x[u] ELSE blank]

\* the operations that sleep until requeued to a PI cell
RequeuePiNames == {"wait_requeue_pi", "wait_requeue_pi_until"}

\* what the call of the sleeping thread u returns when its sleep is ended
\* for the reason `why`: 0, except that a wait_requeue_pi woken by a wake
\* of its first cell, without having been requeued, returns EAGAIN
WokenResult(u, why) ==
    IF call[u].name \in RequeuePiNames /\ why = "wake" THEN SysErr(EAGAIN) ELSE SysOk(0)

\* The call c of thread t returns sr at once, having ended the sleep of the
\* threads in `woken` (each of whose calls returns WokenResult) for the
\* reason `why`.
\* sn is what the kernel read at the call's entry.
Return(t, c, sr, sn, woken, why, newvalue, newqueue) ==
    /\ value' = newvalue
    /\ queue' = newqueue
    /\ pc' = [u \in Threads |-> IF u \in woken THEN "ready" ELSE pc[u]]
    /\ call' = [Blank(call, FutexCall_new("none")) EXCEPT ![t] = c]
    /\ ret' = [u \in Threads |->
                 IF u = t THEN Classify(c, FutexCall_call(sr))
                 ELSE IF u \in woken THEN Classify(call[u], FutexCall_call(WokenResult(u, why)))
                 ELSE NoOutcome]
    /\ cause' = [u \in Threads |-> IF u \in woken THEN why ELSE "none"]
    /\ seen' = [Blank(seen, 0) EXCEPT ![t] = sn]
    /\ slept' = [Blank(slept, FALSE) EXCEPT ![t] = FALSE]
    /\ UNCHANGED <<scope, enc, err>>

\* The call c of thread t goes to sleep at the tail of the queue of `cell`.
Sleep(t, c, sn, cell, newvalue) ==
    /\ value' = newvalue
    /\ queue' = [queue EXCEPT ![cell] = Append(@, t)]
    /\ pc' = [pc EXCEPT ![t] = "blocked"]
    /\ call' = [Blank(call, FutexCall_new("none")) EXCEPT ![t] = c]
    /\ ret' = [u \in Threads |-> NoOutcome]
    /\ cause' = [u \in Threads |-> "none"]
    /\ seen' = [Blank(seen, 0) EXCEPT ![t] = sn]
    /\ slept' = [Blank(slept, FALSE) EXCEPT ![t] = TRUE]
    /\ UNCHANGED <<scope, enc, err>>

\* The sleep of thread t ends with sr without any call of another thread
\* (a signal, the timer).
Interrupt(t, sr, why) ==
    /\ pc[t] = "blocked"
    /\ queue' = [c \in Cells |-> Without(queue[c], t)]
    /\ pc' = [pc EXCEPT ![t] = "ready"]
    /\ call' = Blank(call, FutexCall_new("none"))
    /\ ret' = [u \in Threads |->
                 IF u = t THEN Classify(call[t], FutexCall_call(sr)) ELSE NoOutcome]
    /\ cause' = [u \in Threads |-> IF u = t THEN why ELSE "none"]
    /\ seen' = Blank(seen, 0)
    /\ slept' = Blank(slept, FALSE)
    /\ UNCHANGED <<scope, value, enc, err>>

\* FUTEX_WAIT going to sleep without comparing the cell with val
futex_wait_unchecked(t, c) ==
    Sleep(t, c, value[c.uaddr], c.uaddr, value)

\* FUTEX_WAIT: sleep only if the cell still holds val, checked and queued
\* in one step
futex_wait(t, c) ==
    IF value[c.uaddr] # c.val
    THEN Return(t, c, SysErr(EAGAIN), value[c.uaddr], {}, "none", value, queue)
    ELSE Sleep(t, c, value[c.uaddr], c.uaddr, value)

\* FUTEX_WAKE: end the sleep of up to val waiters of the cell, oldest first
futex_wake(t, c) ==
    LET q == queue[c.uaddr]
        k == Min(c.val, Len(q))
    IN  Return(t, c, SysOk(k), 0, Front(q, k), "wake", value,
               [queue EXCEPT ![c.uaddr] = Rest(q, k)])

\* the 12-bit argument fields of the encoded operation are signed
SignExtend12(n) == IF n >= Pow2(11) THEN n - Pow2(12) ELSE n

\* the decoded fields of the val3 of FUTEX_WAKE_OP: bit 31 asks for the
\* argument to be used as a shift count, bits 28..30 are the operation,
\* bits 24..27 the comparison, bits 12..23 and 0..11 their arguments
WakeOpFields(val3v) ==
    LET a == SignExtend12((val3v \div Pow2(12)) % Pow2(12))
    IN  [op |-> (val3v \div Pow2(28)) % 8,
         cmp |-> (val3v \div Pow2(24)) % 16,
         oparg |-> IF val3v < 0 THEN (IF a % 32 = 31 THEN I32_MIN ELSE Pow2(a % 32)) ELSE a,
         cmparg |-> SignExtend12(val3v % Pow2(12))]

\* the new value FUTEX_WAKE_OP stores to the second cell
WakeOpNew(e, old) ==
    CASE e.op = 0 -> e.oparg
      [] e.op = 1 -> WrappingAdd(old, e.oparg)
      [] e.op = 2 -> AsI32(BitOr(AsU32(old), AsU32(e.oparg)))
      [] e.op = 3 -> AsI32(BitAnd(AsU32(old), BitNot(AsU32(e.oparg))))
      [] e.op = 4 -> AsI32(BitXor(AsU32(old), AsU32(e.oparg)))
      [] OTHER -> old

\* the comparison FUTEX_WAKE_OP makes of the second cell's old value
WakeOpCmp(e, old) ==
    CASE e.cmp = 0 -> old = e.cmparg
      [] e.cmp = 1 -> old # e.cmparg
      [] e.cmp = 2 -> old < e.cmparg
      [] e.cmp = 3 -> old <= e.cmparg
      [] e.cmp = 4 -> old > e.cmparg
      [] e.cmp = 5 -> old >= e.cmparg
      [] OTHER -> FALSE

\* FUTEX_WAKE_OP: modify the second cell, wake up to val waiters of the
\* first, and up to val2 of the second if its old value passes the comparison
futex_wake_op(t, c) ==
    LET e == WakeOpFields(c.val3)
        old == value[c.uaddr2]
        q1 == queue[c.uaddr]
        k1 == Min(c.val, Len(q1))
        queue1 == [queue EXCEPT ![c.uaddr] = Rest(q1, k1)]
        q2 == queue1[c.uaddr2]
        k2 == IF WakeOpCmp(e, old) THEN Min(c.timeout.word, Len(q2)) ELSE 0
    IN  IF e.op > 4 \/ e.cmp > 5
        THEN Return(t, c, SysErr(ENOSYS), old, {}, "none", value, queue)
        ELSE Return(t, c, SysOk(k1 + k2), old, Front(q1, k1) \cup Front(q2, k2), "wake",
                    [value EXCEPT ![c.uaddr2] = WakeOpNew(e, old)],
                    [queue1 EXCEPT ![c.uaddr2] = Rest(q2, k2)])

\* the TID bits of a PI cell's value
TidOf(v) == v % (TID_MASK + 1)

\* FUTEX_LOCK_PI: take the lock if the cell names no owner; otherwise set
\* the waiters bit and sleep until the owner hands the lock over
futex_lock_pi(t, c) ==
    LET v == value[c.uaddr] IN
    IF TidOf(v) = 0
    THEN Return(t, c, SysOk(0), 0, {}, "none",
                [value EXCEPT ![c.uaddr] =
                    Tid(t) + (IF (v \div OWNER_DIED) % 2 = 1 THEN OWNER_DIED ELSE 0)
                           + (IF queue[c.uaddr] # <<>> THEN WAITERS ELSE 0)],
                queue)
    ELSE IF TidOf(v) = Tid(t)
    THEN Return(t, c, SysErr(EDEADLK), 0, {}, "none", value, queue)
    ELSE Sleep(t, c, 0, c.uaddr,
               [value EXCEPT ![c.uaddr] = IF v < 0 THEN v ELSE WAITERS + v])

\* FUTEX_UNLOCK_PI: only the owner may unlock; the oldest waiter becomes
\* the owner, and without waiters the cell becomes 0
futex_unlock_pi(t, c) ==
    LET v == value[c.uaddr]
        q == queue[c.uaddr]
    IN  IF TidOf(v) # Tid(t)
        THEN Return(t, c, SysErr(EPERM), 0, {}, "none", value, queue)
        ELSE IF q = <<>>
        THEN Return(t, c, SysOk(0), 0, {}, "none", [value EXCEPT ![c.uaddr] = 0], queue)
        ELSE Return(t, c, SysOk(0), 0, {Head(q)}, "unlock",
                    [value EXCEPT ![c.uaddr] = WAITERS + Tid(Head(q))],
                    [queue EXCEPT ![c.uaddr] = Tail(q)])

\* FUTEX_WAIT_BITSET: FUTEX_WAIT with the bitset val3, which must not be 0
futex_wait_bitset(t, c) ==
    IF AsU32(c.val3) = {}
    THEN Return(t, c, SysErr(EINVAL), value[c.uaddr], {}, "none", value, queue)
    ELSE futex_wait(t, c)

\* FUTEX_WAKE_BITSET: end the sleep of up to val waiters of the cell whose
\* bitset shares a 1-bit with val3, oldest first; a waiter that named no
\* bitset waits with all 32 bits (FUTEX_BITSET_MATCH_ANY)
futex_wake_bitset(t, c) ==
    LET w == AsU32(c.val3)
        q == queue[c.uaddr]
        BitsetOf(u) ==
            IF Cmd(call[u].futex_op) = FUTEX_WAIT_BITSET THEN AsU32(call[u].val3) ELSE 0..31
        matching == SelectSeq(q, LAMBDA u : BitsetOf(u) \cap w # {})
        k == Min(c.val, Len(matching))
        woken == Front(matching, k)
    IN  IF w = {}
        THEN Return(t, c, SysErr(EINVAL), 0, {}, "none", value, queue)
        ELSE Return(t, c, SysOk(k), 0, woken, "wake", value,
                    [queue EXCEPT ![c.uaddr] = SelectSeq(q, LAMBDA u : u \notin woken)])

\* FUTEX_REQUEUE and FUTEX_CMP_REQUEUE: wake up to val waiters of the cell,
\* move up to val2 of those that remain to the tail of the queue of uaddr2,
\* and return how many were woken or moved; FUTEX_CMP_REQUEUE does so only
\* if the cell holds val3
futex_requeue(t, c) ==
    LET q == queue[c.uaddr]
        k == Min(c.val, Len(q))
        r == Min(c.timeout.word, Len(q) - k)
        moved == SubSeq(q, k + 1, k + r)
    IN  IF Cmd(c.futex_op) = FUTEX_CMP_REQUEUE /\ value[c.uaddr] # c.val3
        THEN Return(t, c, SysErr(EAGAIN), value[c.uaddr], {}, "none", value, queue)
        ELSE IF c.uaddr = c.uaddr2
        THEN Return(t, c, SysOk(k), value[c.uaddr], Front(q, k), "wake", value,
                    [queue EXCEPT ![c.uaddr] = Rest(q, k)])
        ELSE Return(t, c, SysOk(k + r), value[c.uaddr], Front(q, k), "wake", value,
                    [queue EXCEPT ![c.uaddr] = Rest(q, k + r),
                                  ![c.uaddr2] = queue[c.uaddr2] \o moved])

\* FUTEX_WAIT_REQUEUE_PI: sleep on the cell, if it holds val, until
\* requeued to the PI cell uaddr2 and given its lock
futex_wait_requeue_pi(t, c) ==
    IF c.uaddr = c.uaddr2
    THEN Return(t, c, SysErr(EINVAL), value[c.uaddr], {}, "none", value, queue)
    ELSE futex_wait(t, c)

\* FUTEX_CMP_REQUEUE_PI, if the cell holds val3: the oldest waiter takes the
\* lock of the PI cell uaddr2 and is woken if that lock is free, and is
\* moved to its queue otherwise; up to val2 further waiters are moved to
\* that queue.  Every waiter must sleep in wait_requeue_pi towards uaddr2
\* and must not own its lock, and val must be 1.
futex_cmp_requeue_pi(t, c) ==
    LET q == queue[c.uaddr]
        v == value[c.uaddr2]
        free == TidOf(v) = 0
        k == IF free THEN Min(1, Len(q)) ELSE 0
        r == Min(c.timeout.word + 1 - k, Len(q) - k)
        moved == SubSeq(q, k + 1, k + r)
        queue2 == queue[c.uaddr2] \o moved
        taken == IF k = 1 THEN Tid(Head(q)) + (IF (v \div OWNER_DIED) % 2 = 1 THEN OWNER_DIED ELSE 0)
                 ELSE v
        misuse == \E i \in 1..(k + r) :
                     \/ call[q[i]].name \notin RequeuePiNames
                     \/ call[q[i]].uaddr2 # c.uaddr2
    IN  IF c.val # 1 \/ c.uaddr = c.uaddr2 \/ misuse
        THEN Return(t, c, SysErr(EINVAL), value[c.uaddr], {}, "none", value, queue)
        ELSE IF value[c.uaddr] # c.val3
        THEN Return(t, c, SysErr(EAGAIN), value[c.uaddr], {}, "none", value, queue)
        ELSE IF \E i \in 1..(k + r) : Tid(q[i]) = TidOf(v)
        THEN Return(t, c, SysErr(EDEADLK), value[c.uaddr], {}, "none", value, queue)
        ELSE Return(t, c, SysOk(k + r), value[c.uaddr], Front(q, k), "requeue",
                    [value EXCEPT ![c.uaddr2] =
                        IF queue2 # <<>> /\ taken >= 0 THEN WAITERS + taken ELSE taken],
                    [queue EXCEPT ![c.uaddr] = Rest(q, k + r), ![c.uaddr2] = queue2])

\* FUTEX_TRYLOCK_PI: take the lock if the cell names no owner, and return
\* EAGAIN without sleeping if it names another thread
futex_trylock_pi(t, c) ==
    LET v == value[c.uaddr] IN
    IF TidOf(v) = 0 THEN futex_lock_pi(t, c)
    ELSE IF TidOf(v) = Tid(t)
    THEN Return(t, c, SysErr(EDEADLK), 0, {}, "none", value, queue)
    ELSE Return(t, c, SysErr(EAGAIN), 0, {}, "none", value, queue)

\* the multiplexer: a timeout with negative seconds or 10^9 nanoseconds or
\* more is rejected with EINVAL; otherwise the command bits of the op-code
\* select the operation
do_futex(t, c) ==
    IF c.timeout.isptr /\ (c.timeout.tv_sec.neg \/ c.timeout.tv_nsec >= 10 ^ 9)
    THEN Return(t, c, SysErr(EINVAL), 0, {}, "none", value, queue)
    ELSE
    CASE Cmd(c.futex_op) = FUTEX_WAIT /\ c.futex_op < FUTEX_CLOCK_REALTIME -> futex_wait(t, c)
      [] Cmd(c.futex_op) = FUTEX_WAKE /\ c.futex_op < FUTEX_CLOCK_REALTIME -> futex_wake(t, c)
      [] Cmd(c.futex_op) = FUTEX_WAKE_OP /\ c.futex_op < FUTEX_CLOCK_REALTIME -> futex_wake_op(t, c)
      [] Cmd(c.futex_op) = FUTEX_LOCK_PI /\ c.futex_op < FUTEX_CLOCK_REALTIME -> futex_lock_pi(t, c)
      [] Cmd(c.futex_op) = FUTEX_UNLOCK_PI /\ c.futex_op < FUTEX_CLOCK_REALTIME -> futex_unlock_pi(t, c)
      [] Cmd(c.futex_op) = FUTEX_TRYLOCK_PI /\ c.futex_op < FUTEX_CLOCK_REALTIME -> futex_trylock_pi(t, c)
      [] Cmd(c.futex_op) \in {FUTEX_REQUEUE, FUTEX_CMP_REQUEUE} /\ c.futex_op < FUTEX_CLOCK_REALTIME ->
             futex_requeue(t, c)
      [] Cmd(c.futex_op) = FUTEX_WAKE_BITSET /\ c.futex_op < FUTEX_CLOCK_REALTIME -> futex_wake_bitset(t, c)
      [] Cmd(c.futex_op) = FUTEX_CMP_REQUEUE_PI /\ c.futex_op < FUTEX_CLOCK_REALTIME ->
             futex_cmp_requeue_pi(t, c)
      [] Cmd(c.futex_op) = FUTEX_WAIT_BITSET -> futex_wait_bitset(t, c)
      [] Cmd(c.futex_op) = FUTEX_WAIT_REQUEUE_PI -> futex_wait_requeue_pi(t, c)
      [] Cmd(c.futex_op) = FUTEX_LOCK_PI2 -> futex_lock_pi(t, c)
      [] OTHER -> Return(t, c, SysErr(ENOSYS), 0, {}, "none", value, queue)

----------------------------------------------------------------------------
(* lib.rs: the operations of Futex<S> and PiFutex<S>, called by thread t.  *)

\* Futex::wait with the timeout slot of wait_for filled in
wait_with_timeout(t, f, expected_value) ==
    /\ pc[t] = "ready"
    /\ do_futex(t, timeout(val(uaddr(futex_op(FutexCall_new("wait"),
                                              FUTEX_WAIT + futex_flag(scope)), f),
                               expected_value), as_timespec([secs |-> {}, nanos |-> 1])))

\* Futex::wait
wait(t, f, expected_value) ==
    /\ pc[t] = "ready"
    /\ do_futex(t, val(uaddr(futex_op(FutexCall_new("wait"),
                                      FUTEX_WAIT + futex_flag(scope)), f),
                       expected_value))

\* Futex::wait_for leaving the timeout slot empty
wait_for_without_timeout(t, f, expected_value, d) ==
    /\ pc[t] = "ready"
    /\ do_futex(t, val(uaddr(futex_op(FutexCall_new("wait_for"),
                                      FUTEX_WAIT + futex_flag(scope)), f),
                       expected_value))

\* Futex::wait_for
wait_for(t, f, expected_value, d) ==
    /\ pc[t] = "ready"
    /\ LET ts == as_timespec(d)
       IN  do_futex(t, timeout(val(uaddr(futex_op(FutexCall_new("wait_for"),
                                                  FUTEX_WAIT + futex_flag(scope)), f),
                                   expected_value), ts))

\* Futex::wake passing 1 whatever n is
wake_always_one(t, f, n) ==
    /\ pc[t] = "ready"
    /\ do_futex(t, val(uaddr(futex_op(FutexCall_new("wake"),
                                      FUTEX_WAKE + futex_flag(scope)), f), 1))

\* Futex::wake issuing the op-code of wait
wake_as_wait(t, f, n) ==
    /\ pc[t] = "ready"
    /\ do_futex(t, val(uaddr(futex_op(FutexCall_new("wake"),
                                      FUTEX_WAIT + futex_flag(scope)), f), n))

\* Futex::wake
wake(t, f, n) ==
    /\ pc[t] = "ready"
    /\ do_futex(t, val(uaddr(futex_op(FutexCall_new("wake"),
                                      FUTEX_WAKE + futex_flag(scope)), f), n))

\* Futex::wake_op with the two cells in each other's slot
wake_op_cells_swapped(t, f, n, second, op, n2) ==
    /\ pc[t] = "ready"
    /\ do_futex(t, val3(val2(val(uaddr2(uaddr(futex_op(FutexCall_new("wake_op"),
                                                       FUTEX_WAKE_OP + futex_flag(scope)),
                                              second),
                                        f), n), n2),
                        AsI32(raw_bits(op))))

\* Futex::wake_op with n and n2 in each other's slot
wake_op_counts_swapped(t, f, n, second, op, n2) ==
    /\ pc[t] = "ready"
    /\ do_futex(t, val3(val2(val(uaddr2(uaddr(futex_op(FutexCall_new("wake_op"),
                                                       FUTEX_WAKE_OP + futex_flag(scope)), f),
                                        second), n2), n),
                        AsI32(raw_bits(op))))

\* Futex::wake_op; op is the bits of an OpAndCmp
wake_op(t, f, n, second, op, n2) ==
    /\ pc[t] = "ready"
    /\ do_futex(t, val3(val2(val(uaddr2(uaddr(futex_op(FutexCall_new("wake_op"),
                                                       FUTEX_WAKE_OP + futex_flag(scope)), f),
                                        second), n), n2),
                        AsI32(raw_bits(op))))

\* PiFutex::lock_pi issuing the op-code of unlock_pi
lock_pi_as_unlock(t, p) ==
    /\ pc[t] = "ready"
    /\ do_futex(t, uaddr(futex_op(FutexCall_new("lock_pi"),
                                  FUTEX_UNLOCK_PI + futex_flag(scope)), p))

\* PiFutex::lock_pi
lock_pi(t, p) ==
    /\ pc[t] = "ready"
    /\ do_futex(t, uaddr(futex_op(FutexCall_new("lock_pi"),
                                  FUTEX_LOCK_PI + futex_flag(scope)), p))

\* PiFutex::unlock_pi
unlock_pi(t, p) ==
    /\ pc[t] = "ready"
    /\ do_futex(t, uaddr(futex_op(FutexCall_new("unlock_pi"),
                                  FUTEX_UNLOCK_PI + futex_flag(scope)), p))

\* Futex::requeue with n_wake and n_requeue in each other's slot
requeue_counts_swapped(t, f, n_wake, to, n_requeue) ==
    /\ pc[t] = "ready"
    /\ do_futex(t, val2(val(uaddr2(uaddr(futex_op(FutexCall_new("requeue"),
                                                  FUTEX_REQUEUE + futex_flag(scope)), f),
                                   to), n_requeue), n_wake))

\* Futex::requeue
requeue(t, f, n_wake, to, n_requeue) ==
    /\ pc[t] = "ready"
    /\ do_futex(t, val2(val(uaddr2(uaddr(futex_op(FutexCall_new("requeue"),
                                                  FUTEX_REQUEUE + futex_flag(scope)), f),
                                   to), n_wake), n_requeue))

\* Futex::cmp_requeue issuing the op-code of requeue
cmp_requeue_unchecked(t, f, expected_value, n_wake, to, n_requeue) ==
    /\ pc[t] = "ready"
    /\ do_futex(t, val3(val2(val(uaddr2(uaddr(futex_op(FutexCall_new("cmp_requeue"),
                                                       FUTEX_REQUEUE + futex_flag(scope)), f),
                                        to), n_wake), n_requeue),
                        expected_value))

\* Futex::cmp_requeue
cmp_requeue(t, f, expected_value, n_wake, to, n_requeue) ==
    /\ pc[t] = "ready"
    /\ do_futex(t, val3(val2(val(uaddr2(uaddr(futex_op(FutexCall_new("cmp_requeue"),
                                                       FUTEX_CMP_REQUEUE + futex_flag(scope)), f),
                                        to), n_wake), n_requeue),
                        expected_value))

\* Futex::wait_bitset; bitset is a u32
wait_bitset(t, f, expected_value, bitset) ==
    /\ pc[t] = "ready"
    /\ do_futex(t, val3(val(futex_op(uaddr(FutexCall_new("wait_bitset"), f),
                                     FUTEX_WAIT_BITSET + futex_flag(scope)),
                            expected_value),
                        AsI32(bitset)))

\* Timeout::as_timespec of an Instant and of a SystemTime: the clock flag
\* and the timespec of the time since the clock's epoch
Timeout_as_timespec(tm) ==
    IF tm.clock = "SystemTime"
    THEN <<FUTEX_CLOCK_REALTIME, as_timespec(tm.since_epoch)>>
    ELSE <<0, as_timespec(tm.since_epoch)>>

\* Futex::wait_bitset_until leaving the clock flag of the deadline out
wait_bitset_until_no_clock(t, f, expected_value, bitset, tm) ==
    /\ pc[t] = "ready"
    /\ LET resolved == Timeout_as_timespec(tm)
       IN  do_futex(t, timeout(val3(val(futex_op(uaddr(FutexCall_new("wait_bitset_until"), f),
                                                 FUTEX_WAIT_BITSET + futex_flag(scope)),
                                        expected_value),
                                    AsI32(bitset)),
                               resolved[2]))

\* Futex::wait_bitset_until
wait_bitset_until(t, f, expected_value, bitset, tm) ==
    /\ pc[t] = "ready"
    /\ LET resolved == Timeout_as_timespec(tm)
       IN  do_futex(t, timeout(val3(val(futex_op(uaddr(FutexCall_new("wait_bitset_until"), f),
                                                 FUTEX_WAIT_BITSET + resolved[1]
                                                     + futex_flag(scope)),
                                        expected_value),
                                    AsI32(bitset)),
                               resolved[2]))

\* Futex::wake_bitset issuing the op-code of wake
wake_bitset_as_wake(t, f, n, bitset) ==
    /\ pc[t] = "ready"
    /\ do_futex(t, val3(val(uaddr(futex_op(FutexCall_new("wake_bitset"),
                                           FUTEX_WAKE + futex_flag(scope)), f), n),
                        AsI32(bitset)))

\* Futex::wake_bitset
wake_bitset(t, f, n, bitset) ==
    /\ pc[t] = "ready"
    /\ do_futex(t, val3(val(uaddr(futex_op(FutexCall_new("wake_bitset"),
                                           FUTEX_WAKE_BITSET + futex_flag(scope)), f), n),
                        AsI32(bitset)))

\* Futex::cmp_requeue_pi passing n_requeue as the number to wake as well
cmp_requeue_pi_caller_count(t, f, expected_value, to, n_requeue) ==
    /\ pc[t] = "ready"
    /\ do_futex(t, val3(val2(val(uaddr2(uaddr(futex_op(FutexCall_new("cmp_requeue_pi"),
                                                       FUTEX_CMP_REQUEUE_PI + futex_flag(scope)), f),
                                        to), n_requeue), n_requeue),
                        expected_value))

\* Futex::cmp_requeue_pi
cmp_requeue_pi(t, f, expected_value, to, n_requeue) ==
    /\ pc[t] = "ready"
    /\ do_futex(t, val3(val2(val(uaddr2(uaddr(futex_op(FutexCall_new("cmp_requeue_pi"),
                                                       FUTEX_CMP_REQUEUE_PI + futex_flag(scope)), f),
                                        to), 1), n_requeue),
                        expected_value))

\* Futex::wait_requeue_pi
wait_requeue_pi(t, f, expected_value, second) ==
    /\ pc[t] = "ready"
    /\ do_futex(t, val(uaddr2(uaddr(futex_op(FutexCall_new("wait_requeue_pi"),
                                             FUTEX_WAIT_REQUEUE_PI + futex_flag(scope)), f),
                              second), expected_value))

\* Futex::wait_requeue_pi_until
wait_requeue_pi_until(t, f, expected_value, second, tm) ==
    /\ pc[t] = "ready"
    /\ LET resolved == Timeout_as_timespec(tm)
       IN  do_futex(t, timeout(val(uaddr2(uaddr(futex_op(FutexCall_new("wait_requeue_pi_until"),
                                                         FUTEX_WAIT_REQUEUE_PI + resolved[1]
                                                             + futex_flag(scope)), f),
                                          second), expected_value),
                               resolved[2]))

\* PiFutex::lock_pi_until choosing FUTEX_LOCK_PI2 for the real-time clock
lock_pi_until_inverted(t, p, tm) ==
    /\ pc[t] = "ready"
    /\ LET resolved == Timeout_as_timespec(tm)
           op == IF resolved[1] = FUTEX_CLOCK_REALTIME THEN FUTEX_LOCK_PI2 ELSE FUTEX_LOCK_PI
       IN  do_futex(t, timeout(uaddr(futex_op(FutexCall_new("lock_pi_until"),
                                              op + futex_flag(scope)), p),
                               resolved[2]))

\* PiFutex::lock_pi_until
lock_pi_until(t, p, tm) ==
    /\ pc[t] = "ready"
    /\ LET resolved == Timeout_as_timespec(tm)
           op == IF resolved[1] = FUTEX_CLOCK_REALTIME THEN FUTEX_LOCK_PI ELSE FUTEX_LOCK_PI2
       IN  do_futex(t, timeout(uaddr(futex_op(FutexCall_new("lock_pi_until"),
                                              op + futex_flag(scope)), p),
                               resolved[2]))

\* PiFutex::trylock_pi issuing the op-code of lock_pi
trylock_pi_as_lock(t, p) ==
    /\ pc[t] = "ready"
    /\ do_futex(t, uaddr(futex_op(FutexCall_new("trylock_pi"),
                                  FUTEX_LOCK_PI + futex_flag(scope)), p))

\* PiFutex::trylock_pi
trylock_pi(t, p) ==
    /\ pc[t] = "ready"
    /\ do_futex(t, uaddr(futex_op(FutexCall_new("trylock_pi"),
                                  FUTEX_TRYLOCK_PI + futex_flag(scope)), p))

\* a store to the public field `value` of a Futex by a running thread
store(t, f, v) ==
    /\ pc[t] = "ready"
    /\ value' = [value EXCEPT ![f] = v]
    /\ call' = Blank(call, FutexCall_new("none"))
    /\ ret' = [u \in Threads |-> NoOutcome]
    /\ cause' = [u \in Threads |-> "none"]
    /\ seen' = Blank(seen, 0)
    /\ slept' = Blank(slept, FALSE)
    /\ UNCHANGED <<scope, queue, pc, enc, err>>

----------------------------------------------------------------------------
(* The events that end a sleep without a call of another thread.           *)

\* the operations whose sleep a signal ends with EINTR
Interruptible == {"wait", "wait_for", "wait_bitset", "wait_bitset_until"}

\* a signal is delivered to the sleeping thread t
Signal(t) ==
    /\ call[t].name \in Interruptible
    /\ Interrupt(t, SysErr(EINTR), "signal")

\* a signal is delivered to the thread t sleeping in wait_requeue_pi or
\* wait_requeue_pi_until, which have no outcome for it: the call is
\* restarted, so the thread sleeps again at the tail of the queue if it was
\* not requeued and the cell still holds the expected value, and otherwise
\* its sleep ends, as for a waiter woken without the lock, with EAGAIN
SignalRequeuePi(t) ==
    /\ call[t].name \in RequeuePiNames
    /\ pc[t] = "blocked"
    /\ LET q == queue[call[t].uaddr]
           waiting == \E i \in 1..Len(q) : q[i] = t
       IN  IF waiting /\ value[call[t].uaddr] = call[t].val
           THEN /\ q[Len(q)] # t
                /\ queue' = [queue EXCEPT ![call[t].uaddr] = Append(Without(q, t), t)]
                /\ call' = Blank(call, FutexCall_new("none"))
                /\ ret' = [u \in Threads |-> NoOutcome]
                /\ cause' = [u \in Threads |-> "none"]
                /\ seen' = Blank(seen, 0)
                /\ slept' = Blank(slept, FALSE)
                /\ UNCHANGED <<scope, value, pc, enc, err>>
           ELSE Interrupt(t, SysErr(EAGAIN), "signal")

\* the timer of the sleeping thread t, armed from its timespec, expires
Timeout(t) ==
    /\ call[t].timeout.isptr
    /\ Interrupt(t, SysErr(ETIMEDOUT), "timeout")

----------------------------------------------------------------------------
(* The initial state: no thread has called anything, no queue has waiters. *)

Scopes == {"Private", "Shared"}

NoCall == FutexCall_new("none")

NoEnc == [stage |-> "none", op |-> 0, arg |-> 0, res |-> Panicked,
          cop |-> 0, carg |-> 0, cres |-> Panicked, word |-> {}]

NoErr == [name |-> "none", raw |-> SysOk(0), out |-> NoOutcome]

InitThreads ==
    /\ scope \in Scopes
    /\ queue = [c \in Cells |-> <<>>]
    /\ pc = [t \in Threads |-> "ready"]
    /\ call = [t \in Threads |-> NoCall]
    /\ ret = [t \in Threads |-> NoOutcome]
    /\ seen = [t \in Threads |-> 0]
    /\ slept = [t \in Threads |-> FALSE]
    /\ cause = [t \in Threads |-> "none"]
    /\ script = [t \in Threads |-> 0]
    /\ enc = NoEnc
    /\ err = NoErr

----------------------------------------------------------------------------
(* Spec: the threads call wait, wait_for and wake on the cell f and store  *)
(* to it, in any order; signals and timers fire at any time.  The last     *)
(* thread only wakes and stores, the others also wait.                     *)

\* the last thread never waits
Waker == NThreads

Waiters == Threads \ {Waker}

ShortDuration == [secs |-> {}, nanos |-> 1]

Init ==
    /\ InitThreads
    /\ value \in [Cells -> Values]
    /\ value["g"] = 0
    /\ value["p"] = 0

Call_wait ==
    \E t \in Waiters, e \in Values : wait(t, "f", e) /\ UNCHANGED script

Call_wait_for ==
    \E t \in Waiters, e \in Values :
        wait_for(t, "f", e, ShortDuration) /\ UNCHANGED script

Call_wake ==
    \E t \in Threads, n \in 1..MaxWake : wake(t, "f", n) /\ UNCHANGED script

Do_store ==
    \E t \in Threads, v \in Values : store(t, "f", v) /\ UNCHANGED script

Do_signal == \E t \in Threads : Signal(t) /\ UNCHANGED script

Do_timeout == \E t \in Threads : Timeout(t) /\ UNCHANGED script

Next ==
    \/ Call_wait
    \/ Call_wait_for
    \/ Call_wake
    \/ Do_store
    \/ Do_signal
    \/ Do_timeout

Spec == Init /\ [][Next]_vars

----------------------------------------------------------------------------
(* PiSpec: every thread calls lock_pi and unlock_pi on the PI cell p, in   *)
(* any order.                                                              *)

PiInit ==
    /\ InitThreads
    /\ value = [c \in Cells |-> 0]

Call_lock_pi == \E t \in Threads : lock_pi(t, "p") /\ UNCHANGED script

Call_unlock_pi == \E t \in Threads : unlock_pi(t, "p") /\ UNCHANGED script

PiNext ==
    \/ Call_lock_pi
    \/ Call_unlock_pi

PiSpec == PiInit /\ [][PiNext]_vars

----------------------------------------------------------------------------
(* WakeOpSpec: the last thread calls wake_op once, from the cell f to the   *)
(* cell g, with an operation and a comparison built by the constructors of *)
(* op.rs; the other threads wait on f or g for the value the cell holds,   *)
(* before and after that call.                                             *)

OpValues == 0..MaxOpValue

\* the (operation, comparison) pairs called with: every operation with
\* eq(0), and add(1) with every comparison against 1
WakeOpPairs ==
    {<<Op_new(oc, 1), Cmp_new(0, 0)>> : oc \in OpCodes}
        \cup {<<Op_new(1, 1), Cmp_new(cc, 1)>> : cc \in CmpCodes}

WakeOpInit ==
    /\ InitThreads
    /\ value \in [Cells -> OpValues]
    /\ value["f"] = 0
    /\ value["p"] = 0

Script_wait ==
    \E t \in Waiters, f \in PlainCells :
        wait(t, f, value[f]) /\ UNCHANGED script

Script_wake_op ==
    \E n \in 1..MaxWake, n2 \in 1..MaxWake, oc \in WakeOpPairs :
        /\ script[Waker] = 0
        /\ wake_op(Waker, "f", n, "g", Op_add(oc[1].bits, oc[2].bits), n2)
        /\ script' = [script EXCEPT ![Waker] = 1]

WakeOpNext ==
    \/ Script_wait
    \/ Script_wake_op

WakeOpSpec == WakeOpInit /\ [][WakeOpNext]_vars

----------------------------------------------------------------------------
(* Properties of wait and wake, checked under Spec.                        *)

WaitNames == {"wait", "wait_for"}

\* C1: a wait(expected) called while the cell holds another value returns
\* Err(WrongValue) in the step of the call itself: the caller is not put to
\* sleep, whichever threads sleep on the cell or wake it.
C1_WrongValueWithoutSleep ==
    [][\A t \in Threads, e \in Values :
          (value["f"] # e /\ wait(t, "f", e))
              => (pc'[t] = "ready" /\ ~slept'[t] /\ ret'[t] = Fail("WrongValue"))]_vars

\* C1 witness: a wait returned WrongValue while another thread sleeps on the cell
C1_Witness ==
    \E t, u \in Threads :
        /\ call[t].name = "wait" /\ ret[t] = Fail("WrongValue") /\ seen[t] # call[t].val
        /\ u # t /\ pc[u] = "blocked" /\ call[u].uaddr = call[t].uaddr

C3_WaitStoreWake ==
    [][\A a, b \in Threads :
          /\ ( /\ queue["f"] # <<>> /\ Head(queue["f"]) = a
               /\ call[a].name = "wait" /\ call[a].val = 0 /\ seen[a] = 0
               /\ value["f"] = 1
               /\ wake(b, "f", 1) )
                 => (pc'[a] = "ready" /\ ret'[a] = OkUnit /\ ret'[b] = OkCount(1))
          /\ (queue["f"] = <<>> /\ wake(b, "f", 1)) => ret'[b] = OkCount(0)]_vars

\* C3 witness: the cell holds 1, A's wait(0) returned Ok(()) by B's wake, which
\* returned 1, and no thread waits any more
C3_Witness ==
    \E a, b \in Threads :
        /\ call[a].name = "wait" /\ call[a].val = 0 /\ seen[a] = 0 /\ slept[a]
        /\ ret[a] = OkUnit /\ cause[a] = "wake"
        /\ call[b].name = "wake" /\ call[b].val = 1 /\ ret[b] = OkCount(1)
        /\ value["f"] = 1 /\ queue["f"] = <<>>


----------------------------------------------------------------------------
(* Properties of lock_pi and unlock_pi, checked under PiSpec.              *)

\* C5: a lock_pi on the unowned cell p returns Ok(()) at once and makes the
\* caller the owner; a lock_pi while another thread owns p blocks and
\* leaves the owner in place, so of two concurrent calls exactly one
\* returns at once; and a thread blocked in lock_pi leaves the blocked
\* state only in the step in which the owner calls unlock_pi, with Ok(())
\* and with its own identifier in the thread-id bits of p.
C5_LockPiHandover ==
    [][\A t \in Threads :
          /\ (lock_pi(t, "p") /\ TidOf(value["p"]) = 0)
                 => /\ pc'[t] = "ready"
                    /\ ret'[t] = OkUnit
                    /\ TidOf(value'["p"]) = Tid(t)
          /\ (lock_pi(t, "p") /\ TidOf(value["p"]) \notin {0, Tid(t)})
                 => /\ pc'[t] = "blocked"
                    /\ ret'[t] = NoOutcome
                    /\ TidOf(value'["p"]) = TidOf(value["p"])
          /\ (pc[t] = "blocked" /\ call[t].name = "lock_pi" /\ pc'[t] # "blocked")
                 => \E u \in Threads \ {t} :
                        /\ TidOf(value["p"]) = Tid(u)
                        /\ unlock_pi(u, "p")
                        /\ ret'[u] = OkUnit
                        /\ ret'[t] = OkUnit
                        /\ TidOf(value'["p"]) = Tid(t)]_vars

\* a thread that slept in lock_pi has just been handed the lock by the
\* unlock_pi of another thread
C5_Witness ==
    \E t, u \in Threads :
        /\ t # u
        /\ call[t].name = "lock_pi" /\ slept[t] /\ pc[t] = "ready"
        /\ ret[t] = OkUnit /\ cause[t] = "unlock"
        /\ call[u].name = "unlock_pi" /\ ret[u] = OkUnit
        /\ TidOf(value["p"]) = Tid(t)

----------------------------------------------------------------------------
(* Properties of wake_op, checked under WakeOpSpec.                        *)

\* the operations and comparisons of WakeOpPairs, as the codes and
\* arguments their constructors were called with
WakeOpCoded ==
    {[op |-> oc, arg |-> 1, cmp |-> 0, cmparg |-> 0] : oc \in OpCodes}
        \cup {[op |-> 1, arg |-> 1, cmp |-> cc, cmparg |-> 1] : cc \in CmpCodes}

WordOf(k) == Op_add(Op_new(k.op, k.arg).bits, Cmp_new(k.cmp, k.cmparg).bits)

\* the val3 each of them is passed as
WakeOpWords == [k \in WakeOpCoded |-> AsI32(raw_bits(WordOf(k)))]

\* what the documentation of the constructors of Op promises for the
\* constructor with code oc and argument a (a single bit, or the index of
\* one) applied to old
Modified(oc, a, old) ==
    LET y == IF oc >= 8 THEN Pow2(a) ELSE a
        has == (old \div y) % 2 = 1
    IN  CASE oc % 8 = 0 -> y
          [] oc % 8 = 1 -> old + y
          [] oc % 8 = 2 -> IF has THEN old ELSE old + y
          [] oc % 8 = 3 -> IF has THEN old - y ELSE old
          [] oc % 8 = 4 -> IF has THEN old - y ELSE old + y

\* what the documentation of the constructors of Cmp promises
Holds(cc, b, old) ==
    CASE cc = 0 -> old = b
      [] cc = 1 -> old # b
      [] cc = 2 -> old < b
      [] cc = 3 -> old <= b
      [] cc = 4 -> old > b
      [] cc = 5 -> old >= b

\* C6: a step of wake_op(n, g, op + cmp, n2) on f stores op applied to the
\* old value of g into g, ends the sleep of the min(n, waiters) oldest
\* waiters of f, ends the sleep of the min(n2, waiters) oldest waiters of g
\* if cmp holds of the OLD value of g and of none of them otherwise, leaves
\* every other thread as it was, and returns the total number woken.
C6_WakeOp ==
    [][\A k \in WakeOpCoded :
          (script'[Waker] # script[Waker] /\ call'[Waker].val3 = WakeOpWords[k])
              => \A n \in 1..MaxWake, n2 \in 1..MaxWake :
                   wake_op(Waker, "f", n, "g", WordOf(k), n2)
                     => LET old == value["g"]
                            k1 == Min(n, Len(queue["f"]))
                            k2 == IF Holds(k.cmp, k.cmparg, old)
                                  THEN Min(n2, Len(queue["g"])) ELSE 0
                            woken == Front(queue["f"], k1) \cup Front(queue["g"], k2)
                        IN  /\ value'["g"] = Modified(k.op, k.arg, old)
                            /\ value'["f"] = value["f"]
                            /\ queue'["f"] = Rest(queue["f"], k1)
                            /\ queue'["g"] = Rest(queue["g"], k2)
                            /\ ret'[Waker] = OkCount(k1 + k2)
                            /\ \A t \in Threads \ {Waker} :
                                   IF t \in woken
                                   THEN pc'[t] = "ready" /\ ret'[t] = OkUnit
                                   ELSE pc'[t] = pc[t] /\ ret'[t] = NoOutcome]_vars

\* add(1) + eq(0) has just turned g from 0 into 1 and woken a waiter of f
\* and a waiter of g
C6_Witness ==
    \E a, b \in Threads \ {Waker} :
        /\ call[Waker].name = "wake_op"
        /\ call[Waker].val3 = AsI32(WordOf([op |-> 1, arg |-> 1, cmp |-> 0, cmparg |-> 0]))
        /\ seen[Waker] = 0 /\ value["g"] = 1
        /\ ret[Waker] = OkCount(2)
        /\ call[a].uaddr = "f" /\ ret[a] = OkUnit /\ cause[a] = "wake"
        /\ call[b].uaddr = "g" /\ ret[b] = OkUnit /\ cause[b] = "wake"

\* add(1) + eq(0) has just turned g from 3 into 4 and woken nobody, though
\* a thread waits on g
C6_WitnessNoFire ==
    /\ call[Waker].name = "wake_op"
    /\ call[Waker].val3 = AsI32(WordOf([op |-> 1, arg |-> 1, cmp |-> 0, cmparg |-> 0]))
    /\ seen[Waker] = 3 /\ value["g"] = 4
    /\ ret[Waker] = OkCount(0)
    /\ queue["g"] # <<>>

----------------------------------------------------------------------------
(* EncSpec: an Op is built, then a Cmp, and if neither constructor         *)
(* panicked the two are added into an OpAndCmp.                            *)

\* the arguments the constructors are called with: around every power of
\* two up to 1 << MaxArgBit
ArgSamples == UNION {{Pow2(i) - 1, Pow2(i)} : i \in 0..MaxArgBit}

EncInit ==
    /\ InitThreads
    /\ value = [c \in Cells |-> 0]

EncKeep == UNCHANGED <<scope, value, queue, pc, call, ret, seen, slept, cause, script, err>>

Build_op ==
    \E oc \in OpCodes, a \in ArgSamples :
        /\ enc.stage = "none"
        /\ enc' = [enc EXCEPT !.stage = "op", !.op = oc, !.arg = a, !.res = Op_new(oc, a)]
        /\ EncKeep

Build_cmp ==
    \E cc \in CmpCodes, b \in ArgSamples :
        /\ enc.stage = "op"
        /\ enc' = [enc EXCEPT !.stage = "cmp", !.cop = cc, !.carg = b, !.cres = Cmp_new(cc, b)]
        /\ EncKeep

Build_add ==
    /\ enc.stage = "cmp"
    /\ ~enc.res.panic /\ ~enc.cres.panic
    /\ enc' = [enc EXCEPT !.stage = "word", !.word = raw_bits(Op_add(enc.res.bits, enc.cres.bits))]
    /\ EncKeep

EncNext ==
    \/ Build_op
    \/ Build_cmp
    \/ Build_add

EncSpec == EncInit /\ [][EncNext]_vars

\* C7: the word built from an op-code of the ten with an argument below
\* 4096 and a comparison code of the six with an argument below 4096
\* decodes to the same two codes and the same two arguments.
C7_RoundTrip ==
    enc.stage = "word"
        => /\ enc.arg < 4096 /\ enc.carg < 4096
           /\ OpAndCmp_fmt(enc.word) =
                  [op |-> [op |-> enc.op, arg |-> enc.arg],
                   cmp |-> [op |-> enc.cop, arg |-> enc.carg]]
           /\ SumBits(Shr32(enc.word, 28)) = enc.op
           /\ SumBits(BitAnd(Shr32(enc.word, 12), U32(4095))) = enc.arg
           /\ SumBits(BitAnd(Shr32(enc.word, 24), U32(15))) = enc.cop
           /\ SumBits(BitAnd(enc.word, U32(4095))) = enc.carg

\* toggle_bit(4095) + ge(4095), the largest of everything, has been built
C7_Witness ==
    /\ enc.stage = "word"
    /\ enc.op = 12 /\ enc.arg = 4095 /\ enc.cop = 5 /\ enc.carg = 4095

\* C7 as stated: the round trip, with ten op-codes and five comparison
\* op-codes
C7_RoundTripFiveComparisons ==
    /\ Cardinality(OpCodes) = 10
    /\ Cardinality(CmpCodes) = 5
    /\ C7_RoundTrip

\* C8: a constructor of Op or of Cmp panics, and leaves no value, exactly
\* if its argument is 4096 or more.
C8_PanicIffTooLarge ==
    /\ enc.stage \in {"op", "cmp", "word"}
           => /\ enc.res.panic <=> enc.arg >= 4096
              /\ enc.res.panic => enc.res = Panicked
    /\ enc.stage \in {"cmp", "word"}
           => /\ enc.cres.panic <=> enc.carg >= 4096
              /\ enc.cres.panic => enc.cres = Panicked
    /\ enc.stage = "word" => (enc.arg < 4096 /\ enc.carg < 4096)

\* an Op constructor panicked on 4096 and a Cmp constructor built from 4095
C8_Witness ==
    /\ enc.stage = "cmp"
    /\ enc.arg = 4096 /\ enc.res.panic
    /\ enc.carg = 4095 /\ ~enc.cres.panic

----------------------------------------------------------------------------
(* ErrSpec: an operation is handed a raw result of the system call and     *)
(* classifies it.                                                          *)

Errnos == {EPERM, ESRCH, EINTR, EAGAIN, EFAULT, EINVAL, EDEADLK, ENOSYS, ETIMEDOUT}

\* result and errno as the system call leaves them
RawResults == {SysErr(e) : e \in Errnos} \cup {SysOk(n) : n \in 0..MaxWake}

ErrInit ==
    /\ InitThreads
    /\ value = [c \in Cells |-> 0]

\* the op-codes an operation may issue
OpCodesOf(name) ==
    CASE name \in {"wait", "wait_for"} -> {FUTEX_WAIT}
      [] name = "wake" -> {FUTEX_WAKE}
      [] name = "requeue" -> {FUTEX_REQUEUE}
      [] name = "cmp_requeue" -> {FUTEX_CMP_REQUEUE}
      [] name \in {"wait_bitset", "wait_bitset_until"} -> {FUTEX_WAIT_BITSET}
      [] name = "wake_bitset" -> {FUTEX_WAKE_BITSET}
      [] name = "wake_op" -> {FUTEX_WAKE_OP}
      [] name = "cmp_requeue_pi" -> {FUTEX_CMP_REQUEUE_PI}
      [] name \in {"wait_requeue_pi", "wait_requeue_pi_until"} -> {FUTEX_WAIT_REQUEUE_PI}
      [] name = "lock_pi" -> {FUTEX_LOCK_PI}
      [] name = "lock_pi_until" -> {FUTEX_LOCK_PI, FUTEX_LOCK_PI2}
      [] name = "trylock_pi" -> {FUTEX_TRYLOCK_PI}
      [] name = "unlock_pi" -> {FUTEX_UNLOCK_PI}

Classify_raw ==
    \E name \in Operations, raw \in RawResults :
      \E op \in OpCodesOf(name) :
        /\ err' = [name |-> name, raw |-> raw,
                   out |-> Classify(futex_op(FutexCall_new(name), op), FutexCall_call(raw))]
        /\ UNCHANGED <<scope, value, queue, pc, call, ret, seen, slept, cause, script, enc>>

ErrNext == Classify_raw

ErrSpec == ErrInit /\ [][ErrNext]_vars

\* the error codes each operation foresees, and the outcome of each
Foreseen(name) ==
    CASE name \in {"wait", "wait_bitset"} -> {EAGAIN, EINTR}
      [] name \in {"wait_for", "wait_bitset_until"} -> {EAGAIN, EINTR, ETIMEDOUT}
      [] name \in {"cmp_requeue", "cmp_requeue_pi", "wait_requeue_pi",
                   "lock_pi", "trylock_pi"} -> {EAGAIN}
      [] name \in {"wait_requeue_pi_until", "lock_pi_until"} -> {EAGAIN, ETIMEDOUT}
      [] name \in {"wake", "wake_bitset", "requeue", "wake_op", "unlock_pi"} -> {}

PlainFamily == {"wait", "wait_for", "wait_bitset", "wait_bitset_until", "cmp_requeue"}

Typed(name, e) ==
    CASE e = EAGAIN -> IF name \in PlainFamily THEN "WrongValue" ELSE "TryAgain"
      [] e = EINTR -> "Interrupted"
      [] e = ETIMEDOUT -> "TimedOut"

\* C9: an operation handed an error code it does not foresee panics; handed
\* one it foresees it returns the typed error of that code; handed a
\* result that is no error it returns Ok.
C9_UnforeseenPanics ==
    err.name # "none"
        => IF err.raw.result = -1
           THEN IF err.raw.errno \in Foreseen(err.name)
                THEN err.out = Fail(Typed(err.name, err.raw.errno))
                ELSE err.out.tag = "Panic"
           ELSE err.out.tag = "Ok"

\* lock_pi was handed EINTR, which it does not foresee, and panicked
C9_Witness ==
    /\ err.name = "lock_pi"
    /\ err.raw = SysErr(EINTR)
    /\ err.out = Panic("FUTEX_LOCK_PI")

\* wake was handed an error and panicked
C9_WitnessWake ==
    /\ err.name = "wake"
    /\ err.raw.result = -1
    /\ err.out.tag = "Panic"

----------------------------------------------------------------------------
(* LostWakeSpec: the cell f holds 0; the first thread calls wait(0) once;  *)
(* every other thread stores another value to f and then calls wake(n)     *)
(* with n >= 1.  Every thread eventually takes its next step.              *)

Waiter == CHOOSE t \in Threads : \A u \in Threads : t <= u

Writers == Threads \ {Waiter}

LostWakeInit ==
    /\ InitThreads
    /\ value = [c \in Cells |-> 0]

Waiter_wait ==
    /\ script[Waiter] = 0
    /\ wait(Waiter, "f", 0)
    /\ script' = [script EXCEPT ![Waiter] = 1]

Writer_store(t) ==
    \E v \in Values \ {0} :
        /\ script[t] = 0
        /\ store(t, "f", v)
        /\ script' = [script EXCEPT ![t] = 1]

Writer_wake(t) ==
    \E n \in 1..MaxWake :
        /\ script[t] = 1
        /\ wake(t, "f", n)
        /\ script' = [script EXCEPT ![t] = 2]

Writers_store == \E t \in Writers : Writer_store(t)

Writers_wake == \E t \in Writers : Writer_wake(t)

LostWakeNext ==
    \/ Waiter_wait
    \/ Writers_store
    \/ Writers_wake

LostWakeSpec ==
    /\ LostWakeInit
    /\ [][LostWakeNext]_vars
    /\ WF_vars(Waiter_wait)
    /\ \A t \in Writers : WF_vars(Writer_store(t)) /\ WF_vars(Writer_wake(t))

\* C4: the waiter's wait(0) returns, with Ok(()) or with Err(WrongValue),
\* however its call interleaves with the writers' stores and wakes, and
\* once returned the waiter is never blocked again.
C4_NoLostWakeup ==
    /\ <>(/\ script[Waiter] = 1 /\ pc[Waiter] = "ready"
          /\ ret[Waiter] \in {OkUnit, Fail("WrongValue")})
    /\ <>[](script[Waiter] = 1 /\ pc[Waiter] = "ready")

\* the waiter slept in wait(0), was released by a writer's wake after the
\* writer's store, and returned Ok(())
C4_Witness ==
    \E w \in Writers :
        /\ call[Waiter].name = "wait" /\ slept[Waiter] /\ seen[Waiter] = 0
        /\ ret[Waiter] = OkUnit /\ cause[Waiter] = "wake"
        /\ call[w].name = "wake" /\ script[w] = 2
        /\ value["f"] # 0

\* the waiter called wait(0) after a writer's store and before that
\* writer's wake, and returned Err(WrongValue)
C4_WitnessWrongValue ==
    \E w \in Writers :
        /\ call[Waiter].name = "wait" /\ ~slept[Waiter]
        /\ ret[Waiter] = Fail("WrongValue")
        /\ script[w] = 1

----------------------------------------------------------------------------
(* TimedSpec: every thread calls wait_for on the cell f for the            *)
(* value it holds; nothing stores to f, wakes it or sends a signal, and    *)
(* the timer of a sleeping thread eventually expires.                      *)

TimedInit ==
    /\ InitThreads
    /\ value \in [Cells -> Values]
    /\ value["g"] = 0
    /\ value["p"] = 0

Timed_wait_for ==
    \E t \in Threads, d \in Durations :
        wait_for(t, "f", value["f"], d) /\ UNCHANGED script

Timer(t) == Timeout(t) /\ UNCHANGED script

Timers == \E t \in Threads : Timer(t)

TimedNext ==
    \/ Timed_wait_for
    \/ Timers

TimedSpec ==
    /\ TimedInit
    /\ [][TimedNext]_vars
    /\ \A t \in Threads : WF_vars(Timer(t))

\* C10: a thread asleep in wait_for on the unchanged, unwoken cell returns
\* Err(TimedOut), and no wait_for returns Ok(()).
C10_EventuallyTimedOut ==
    /\ \A t \in Threads :
           (pc[t] = "blocked" /\ call[t].name = "wait_for")
               ~> (pc[t] = "ready" /\ ret[t] = Fail("TimedOut"))
    /\ [](\A t \in Threads : ret[t] # OkUnit)

\* a wait_for for 1.5 s went to sleep and returned Err(TimedOut) when its
\* timer expired
C10_Witness ==
    \E t \in Threads :
        /\ call[t].name = "wait_for" /\ slept[t] /\ seen[t] = call[t].val
        /\ call[t].timeout = [isptr |-> TRUE, word |-> 0, tv_sec |-> [neg |-> FALSE, mag |-> {0}],
                             tv_nsec |-> 500000000]
        /\ pc[t] = "ready" /\ cause[t] = "timeout"
        /\ ret[t] = Fail("TimedOut")

----------------------------------------------------------------------------
(* SignalSpec: the first thread calls the six wait operations on the cell  *)
(* f, the requeueing ones towards the PI cell p; the other waiting threads  *)
(* call wait_requeue_pi likewise; the last thread stores to f; signals and *)
(* timers fire at any time.                                                *)

\* the bitsets called with: none, the lowest bit, the highest, and both
Masks == {{}, {0}, {31}, {0, 31}}

\* a deadline 1.5 s after the epoch of the clock
Deadline(clock) == [clock |-> clock, since_epoch |-> [secs |-> {0}, nanos |-> 500000000]]

SignalNext ==
    \/ \E e \in Values : wait(Waiter, "f", e) /\ UNCHANGED script
    \/ \E e \in Values : wait_for(Waiter, "f", e, ShortDuration) /\ UNCHANGED script
    \/ \E e \in Values : wait_bitset(Waiter, "f", e, {31}) /\ UNCHANGED script
    \/ \E e \in Values :
           wait_bitset_until(Waiter, "f", e, {0, 31}, Deadline("SystemTime"))
               /\ UNCHANGED script
    \/ \E t \in Waiters, e \in Values :
           wait_requeue_pi(t, "f", e, "p") /\ UNCHANGED script
    \/ \E e \in Values :
           wait_requeue_pi_until(Waiter, "f", e, "p", Deadline("Instant"))
               /\ UNCHANGED script
    \/ \E v \in Values : store(Waker, "f", v) /\ UNCHANGED script
    \/ \E t \in Threads : Signal(t) /\ UNCHANGED script
    \/ \E t \in Threads : SignalRequeuePi(t) /\ UNCHANGED script
    \/ \E t \in Threads : Timeout(t) /\ UNCHANGED script

SignalSpec == Init /\ [][SignalNext]_vars

\* the six blocking wait operations
WaitFamily == Interruptible \cup RequeuePiNames

\* C11: a thread asleep in wait, wait_for, wait_bitset or wait_bitset_until
\* whose sleep is ended by a signal returns Err(Interrupted), which is
\* neither Ok(()) nor Err(TimedOut); wait_requeue_pi and
\* wait_requeue_pi_until never return Err(Interrupted).
C11_SignalInterrupts ==
    [][\A t \in Threads :
          /\ (pc[t] = "blocked" /\ call[t].name \in Interruptible /\ cause'[t] = "signal")
                 => /\ pc'[t] = "ready"
                    /\ ret'[t] = Fail("Interrupted")
                    /\ ret'[t] \notin {OkUnit, Fail("TimedOut")}
          /\ (pc[t] = "blocked" /\ call[t].name \in RequeuePiNames)
                 => ret'[t].tag # "Interrupted"]_vars

\* a thread asleep in wait_bitset_until on the real-time clock was
\* interrupted by a signal
C11_Witness ==
    \E t \in Threads :
        /\ call[t].name = "wait_bitset_until" /\ slept[t] /\ pc[t] = "ready"
        /\ call[t].futex_op >= FUTEX_CLOCK_REALTIME
        /\ cause[t] = "signal" /\ ret[t] = Fail("Interrupted")

\* C11 as stated: a thread asleep in any of the six wait operations whose
\* sleep is ended by a signal returns Err(Interrupted)
C11_AllSixInterrupted ==
    [][\A t \in Threads :
          (pc[t] = "blocked" /\ call[t].name \in WaitFamily /\ cause'[t] = "signal")
              => ret'[t] = Fail("Interrupted")]_vars

----------------------------------------------------------------------------
(* LockSpec: every thread calls lock_pi, lock_pi_until with a deadline on  *)
(* either clock, trylock_pi and unlock_pi on the PI cell p, in any order;  *)
(* the timer of a timed call may expire.                                   *)

LockNext ==
    \/ \E t \in Threads : lock_pi(t, "p") /\ UNCHANGED script
    \/ \E t \in Threads, k \in {"Instant", "SystemTime"} :
           lock_pi_until(t, "p", Deadline(k)) /\ UNCHANGED script
    \/ \E t \in Threads : trylock_pi(t, "p") /\ UNCHANGED script
    \/ \E t \in Threads : unlock_pi(t, "p") /\ UNCHANGED script
    \/ \E t \in Threads : Timeout(t) /\ UNCHANGED script

LockSpec == PiInit /\ [][LockNext]_vars

\* C12: lock_pi_until issues FUTEX_LOCK_PI, without a clock flag, exactly if
\* the clock selector of its deadline is FUTEX_CLOCK_REALTIME (a
\* SystemTime), and FUTEX_LOCK_PI2 otherwise (an Instant), with the
\* timespec of the same deadline; a call that completes without a panic
\* returns Ok(()), Err(TryAgain) or Err(TimedOut).
C12_LockPiUntilOp ==
    [][\A t \in Threads :
          /\ \A k \in {"Instant", "SystemTime"} :
                lock_pi_until(t, "p", Deadline(k))
                    => /\ call'[t].futex_op - futex_flag(scope) =
                              (IF Timeout_as_timespec(Deadline(k))[1] = FUTEX_CLOCK_REALTIME
                               THEN FUTEX_LOCK_PI ELSE FUTEX_LOCK_PI2)
                       /\ (call'[t].futex_op - futex_flag(scope) = FUTEX_LOCK_PI2)
                              <=> (k = "Instant")
                       /\ call'[t].timeout.isptr
          /\ (call'[t].name = "lock_pi_until" /\ pc'[t] = "ready"
                  /\ ret'[t].tag \notin {"None", "Panic"})
                 => ret'[t] \in {OkUnit, Fail("TryAgain"), Fail("TimedOut")}]_vars

\* a lock_pi_until with a real-time deadline slept under FUTEX_LOCK_PI and
\* timed out
C12_Witness ==
    \E t \in Threads :
        /\ call[t].name = "lock_pi_until" /\ slept[t] /\ pc[t] = "ready"
        /\ Cmd(call[t].futex_op) = FUTEX_LOCK_PI
        /\ cause[t] = "timeout" /\ ret[t] = Fail("TimedOut")

\* a lock_pi_until with a monotonic deadline slept under FUTEX_LOCK_PI2 and
\* was handed the lock
C12_WitnessMonotonic ==
    \E t \in Threads :
        /\ call[t].name = "lock_pi_until" /\ slept[t] /\ pc[t] = "ready"
        /\ Cmd(call[t].futex_op) = FUTEX_LOCK_PI2
        /\ cause[t] = "unlock" /\ ret[t] = OkUnit /\ TidOf(value["p"]) = Tid(t)

\* C12 as stated: lock_pi_until issues FUTEX_LOCK_PI2 exactly if its
\* deadline is on the real-time clock, and FUTEX_LOCK_PI otherwise
C12_NewerOpForRealTime ==
    [][\A t \in Threads, k \in {"Instant", "SystemTime"} :
          lock_pi_until(t, "p", Deadline(k))
              => (Cmd(call'[t].futex_op) =
                      (IF k = "SystemTime" THEN FUTEX_LOCK_PI2 ELSE FUTEX_LOCK_PI))]_vars

C13_WitnessAcquired ==
    \E t \in Threads :
        /\ call[t].name = "trylock_pi" /\ ret[t] = OkUnit /\ TidOf(value["p"]) = Tid(t)

----------------------------------------------------------------------------
(* RequeuePiSpec: the waiting threads call wait_requeue_pi from the cell f *)
(* towards the PI cell p; the last thread calls cmp_requeue_pi likewise,   *)
(* and wake and wake_bitset on f; every thread may call lock_pi and        *)
(* unlock_pi on p.                                                         *)

RequeuePiNext ==
    \/ \E t \in Waiters, e \in Values :
           wait_requeue_pi(t, "f", e, "p") /\ UNCHANGED script
    \/ \E e \in Values, n \in 0..MaxWake :
           cmp_requeue_pi(Waker, "f", e, "p", n) /\ UNCHANGED script
    \/ \E n \in 1..MaxWake : wake(Waker, "f", n) /\ UNCHANGED script
    \/ wake_bitset(Waker, "f", 1, {0}) /\ UNCHANGED script
    \/ lock_pi(Waker, "p") /\ UNCHANGED script
    \/ \E t \in Threads : unlock_pi(t, "p") /\ UNCHANGED script

RequeuePiSpec == Init /\ [][RequeuePiNext]_vars

\* C14: a thread asleep in wait_requeue_pi that is woken by a wake or a
\* wake_bitset of its first cell, not having been requeued, returns
\* Err(TryAgain); it enters the queue of the PI cell only in a step of
\* cmp_requeue_pi naming that cell; and it returns Ok(()) only as the owner
\* of the PI cell, woken by that cmp_requeue_pi or, requeued before, by the
\* unlock_pi that hands it the lock.
C14_WaitRequeuePi ==
    [][\A t \in Threads :
          (pc[t] = "blocked" /\ call[t].name = "wait_requeue_pi")
              => LET requeued == \E i \in 1..Len(queue["p"]) : queue["p"][i] = t
                     requeuer == \E u \in Threads \ {t} :
                                    /\ call'[u].name = "cmp_requeue_pi"
                                    /\ call'[u].uaddr2 = call[t].uaddr2
                                    /\ ret'[u].tag = "Ok"
                 IN  /\ (~requeued /\ cause'[t] = "wake")
                            => (pc'[t] = "ready" /\ ret'[t] = Fail("TryAgain"))
                     /\ (~requeued /\ \E i \in 1..Len(queue'["p"]) : queue'["p"][i] = t)
                            => requeuer
                     /\ (pc'[t] = "ready" /\ ret'[t] = OkUnit)
                            => /\ TidOf(value'["p"]) = Tid(t)
                               /\ \/ requeued /\ cause'[t] = "unlock"
                                  \/ ~requeued /\ requeuer]_vars

\* a thread asleep in wait_requeue_pi was woken by a plain wake and
\* returned Err(TryAgain)
C14_Witness ==
    \E t, u \in Threads :
        /\ call[t].name = "wait_requeue_pi" /\ slept[t] /\ pc[t] = "ready"
        /\ cause[t] = "wake" /\ ret[t] = Fail("TryAgain")
        /\ call[u].name = "wake" /\ ret[u].n >= 1

\* a thread that was requeued to the PI cell while another thread owned it
\* was handed the lock by the owner's unlock_pi and returned Ok(())
C14_WitnessRequeued ==
    \E t, u \in Threads :
        /\ call[t].name = "wait_requeue_pi" /\ slept[t] /\ pc[t] = "ready"
        /\ cause[t] = "unlock" /\ ret[t] = OkUnit /\ TidOf(value["p"]) = Tid(t)
        /\ call[u].name = "unlock_pi" /\ ret[u] = OkUnit

\* C15: cmp_requeue_pi(expected, p, n_requeue) passes 1 as the number to
\* wake, n_requeue as the number to requeue, expected as the value to
\* compare and p as the target; if the cell holds another value it returns
\* Err(TryAgain) and no waiter is woken or moved; on success at most one
\* waiter is woken, woken and moved together are at most 1 + n_requeue,
\* and the call returns their number.
C15_CmpRequeuePi ==
    [][\A e \in Values, n \in 0..MaxWake :
          (call'[Waker].name = "cmp_requeue_pi" /\ call'[Waker].val3 = e
              /\ cmp_requeue_pi(Waker, "f", e, "p", n))
              => LET woken == {u \in Threads : pc[u] = "blocked" /\ pc'[u] = "ready"}
                     moved == {u \in Threads :
                                  /\ \E i \in 1..Len(queue["f"]) : queue["f"][i] = u
                                  /\ \E i \in 1..Len(queue'["p"]) : queue'["p"][i] = u}
                 IN  /\ call'[Waker].val = 1
                     /\ call'[Waker].timeout = [NullPtr EXCEPT !.word = n]
                     /\ call'[Waker].val3 = e
                     /\ call'[Waker].uaddr = "f" /\ call'[Waker].uaddr2 = "p"
                     /\ pc'[Waker] = "ready"
                     /\ value["f"] # e
                            => /\ ret'[Waker] = Fail("TryAgain")
                               /\ woken = {} /\ moved = {}
                               /\ queue' = queue /\ value' = value
                     /\ (value["f"] = e /\ ret'[Waker].tag # "Panic")
                            => /\ Cardinality(woken) <= 1
                               /\ Cardinality(woken) + Cardinality(moved) <= 1 + n
                               /\ ret'[Waker] = OkCount(Cardinality(woken) + Cardinality(moved))
                               /\ \A u \in woken : TidOf(value'["p"]) = Tid(u)]_vars

\* a cmp_requeue_pi on the free PI cell woke one waiter, which owns the
\* cell, moved another and returned 2
C15_Witness ==
    \E t, u \in Threads :
        /\ call[Waker].name = "cmp_requeue_pi" /\ ret[Waker] = OkCount(2)
        /\ call[t].name = "wait_requeue_pi" /\ pc[t] = "ready" /\ cause[t] = "requeue"
        /\ ret[t] = OkUnit /\ TidOf(value["p"]) = Tid(t)
        /\ u # t /\ pc[u] = "blocked" /\ queue["p"] = <<u>>

\* a cmp_requeue_pi for another value than the cell holds returned
\* Err(TryAgain) while a thread sleeps on the cell
C15_WitnessTryAgain ==
    /\ call[Waker].name = "cmp_requeue_pi" /\ ret[Waker] = Fail("TryAgain")
    /\ seen[Waker] # call[Waker].val3
    /\ queue["f"] # <<>>

----------------------------------------------------------------------------
(* RequeueSpec: the waiting threads call wait on the cell f, and the first *)
(* of them also on g, for the value the cell holds; the last thread calls  *)
(* wake on f and g, and requeue and cmp_requeue from f to g, the latter    *)
(* expecting the value f holds, or another one with the largest counts.    *)

RequeueNext ==
    \/ \E t \in Waiters : wait(t, "f", value["f"]) /\ UNCHANGED script
    \/ wait(Waiter, "g", value["g"]) /\ UNCHANGED script
    \/ \E c \in PlainCells, n \in 1..MaxWake : wake(Waker, c, n) /\ UNCHANGED script
    \/ \E n_wake \in 0..MaxWake, n_requeue \in 0..MaxWake :
           requeue(Waker, "f", n_wake, "g", n_requeue) /\ UNCHANGED script
    \/ \E n_wake \in 0..MaxWake, n_requeue \in 0..MaxWake :
           cmp_requeue(Waker, "f", value["f"], n_wake, "g", n_requeue) /\ UNCHANGED script
    \/ \E e \in Values \ {value["f"]} :
           cmp_requeue(Waker, "f", e, MaxWake, "g", MaxWake) /\ UNCHANGED script

RequeueSpec == Init /\ [][RequeueNext]_vars

(* BitsetSpec: the waiting threads call wait_bitset on the cell f for the  *)
(* value it holds, and the first of them also wait, and wait_bitset with   *)
(* the bitset 0; the last thread calls wake and wake_bitset, the latter    *)
(* also with the bitset 0.                                                 *)

BitsetNext ==
    \/ wait(Waiter, "f", value["f"]) /\ UNCHANGED script
    \/ \E t \in Waiters, m \in Masks \ {{}} :
           wait_bitset(t, "f", value["f"], m) /\ UNCHANGED script
    \/ wait_bitset(Waiter, "f", value["f"], {}) /\ UNCHANGED script
    \/ \E n \in 1..MaxWake : wake(Waker, "f", n) /\ UNCHANGED script
    \/ \E n \in 1..MaxWake, w \in Masks \ {{}} :
           wake_bitset(Waker, "f", n, w) /\ UNCHANGED script
    \/ wake_bitset(Waker, "f", MaxWake, {}) /\ UNCHANGED script

BitsetSpec == Init /\ [][BitsetNext]_vars

\* the threads whose sleep the step ends, and those it moves from f to g
WokenNow == {u \in Threads : pc[u] = "blocked" /\ pc'[u] = "ready"}
MovedNow ==
    {u \in Threads : /\ \E i \in 1..Len(queue["f"]) : queue["f"][i] = u
                     /\ \E i \in 1..Len(queue'["g"]) : queue'["g"][i] = u}

\* the step wakes the oldest min(n_wake, waiters) waiters of f, moves the
\* next min(n_requeue, rest) to the tail of g, and returns outcome(total)
WakesAndMoves(n_wake, n_requeue) ==
    LET q == queue["f"]
        k == Min(n_wake, Len(q))
        r == Min(n_requeue, Len(q) - k)
    IN  /\ WokenNow = {q[i] : i \in 1..k}
        /\ MovedNow = {q[i] : i \in (k + 1)..(k + r)}
        /\ queue'["f"] = SubSeq(q, k + r + 1, Len(q))
        /\ queue'["g"] = queue["g"] \o SubSeq(q, k + 1, k + r)
        /\ ret'[Waker] = OkCount(k + r)
        /\ \A u \in WokenNow : ret'[u] = OkUnit

\* C16: a cmp_requeue(expected, n_wake, g, n_requeue) on f returns
\* Err(WrongValue), waking and moving no waiter, if f holds another value
\* than expected; otherwise it wakes min(n_wake, waiters) waiters, moves
\* min(n_requeue, remaining) of the others to g and returns the total.
C16_CmpRequeue ==
    [][call'[Waker].name = "cmp_requeue"
          => \A e \in Values, n_wake \in 0..MaxWake, n_requeue \in 0..MaxWake :
                (/\ call'[Waker].val3 = e
                 /\ call'[Waker].val = n_wake /\ call'[Waker].timeout.word = n_requeue
                 /\ cmp_requeue(Waker, "f", e, n_wake, "g", n_requeue))
                    => /\ pc'[Waker] = "ready"
                       /\ value' = value
                       /\ value["f"] # e
                              => /\ ret'[Waker] = Fail("WrongValue")
                                 /\ WokenNow = {} /\ MovedNow = {} /\ queue' = queue
                       /\ value["f"] = e => WakesAndMoves(n_wake, n_requeue)]_vars

\* a cmp_requeue for the value the cell holds woke one waiter, moved
\* another and returned 2
C16_Witness ==
    \E t, u \in Threads :
        /\ call[Waker].name = "cmp_requeue" /\ ret[Waker] = OkCount(2)
        /\ seen[Waker] = call[Waker].val3
        /\ call[t].name = "wait" /\ pc[t] = "ready" /\ ret[t] = OkUnit /\ cause[t] = "wake"
        /\ u # t /\ pc[u] = "blocked" /\ call[u].uaddr = "f" /\ queue["g"] = <<u>>

\* a cmp_requeue for another value returned Err(WrongValue) and the waiter
\* of f still sleeps there
C16_WitnessWrongValue ==
    /\ call[Waker].name = "cmp_requeue" /\ ret[Waker] = Fail("WrongValue")
    /\ seen[Waker] # call[Waker].val3
    /\ queue["f"] # <<>>

C17_WitnessPlainWait ==
    \E t \in Threads :
        /\ call[Waker].name = "wake_bitset" /\ call[Waker].val3 = AsI32({31})
        /\ call[t].name = "wait" /\ pc[t] = "ready" /\ ret[t] = OkUnit /\ cause[t] = "wake"

C19_WitnessWokenOnTarget ==
    \E t \in Threads :
        /\ call[t].name = "wait" /\ call[t].uaddr = "f" /\ pc[t] = "ready"
        /\ ret[t] = OkUnit /\ cause[t] = "wake"
        /\ call[Waker].name = "wake" /\ call[Waker].uaddr = "g"

----------------------------------------------------------------------------
\* C18: under Spec, a wake(n) on f leaves its caller running, ends the
\* sleep of exactly the oldest min(n, waiters) waiters of f, which leave
\* the queue, and returns Ok(that number), a number in 0..n; it never
\* returns a typed error.
C18_WakeCount ==
    [][\A t \in Threads :
          call'[t].name = "wake"
              => \A n \in 1..MaxWake :
                    wake(t, "f", n)
                        => LET q == queue["f"]
                               k == Min(n, Len(q))
                           IN  /\ pc'[t] = "ready"
                               /\ WokenNow = {q[i] : i \in 1..k}
                               /\ Cardinality(WokenNow) = k
                               /\ queue'["f"] = SubSeq(q, k + 1, Len(q))
                               /\ \A u \in Threads \ WokenNow : pc'[u] = pc[u]
                               /\ ret'[t] = OkCount(k)
                               /\ k \in 0..n]_vars

\* a wake(MaxWake) with one waiter in the queue woke it and returned 1
C18_Witness ==
    \E t, u \in Threads :
        /\ call[t].name = "wake" /\ call[t].val = MaxWake /\ ret[t] = OkCount(1)
        /\ pc[t] = "ready" /\ u # t
        /\ pc[u] = "ready" /\ ret[u] = OkUnit /\ cause[u] = "wake"
        /\ queue["f"] = <<>>

\* a wake(1) with two waiters in the queue woke the older, left the other
\* asleep and returned 1
C18_WitnessOneOfTwo ==
    \E t, u, v \in Threads :
        /\ call[t].name = "wake" /\ call[t].val = 1 /\ ret[t] = OkCount(1)
        /\ pc[u] = "ready" /\ ret[u] = OkUnit /\ cause[u] = "wake"
        /\ pc[v] = "blocked" /\ queue["f"] = <<v>>

\* a wake with no waiter in the queue returned 0
C18_WitnessNone ==
    \E t \in Threads :
        /\ call[t].name = "wake" /\ ret[t] = OkCount(0) /\ queue["f"] = <<>>

----------------------------------------------------------------------------
(* TimespecSpec: the first thread calls wait_for on the cell f with        *)
(* durations from all over the range of Duration; the timer of a sleeping  *)
(* call may expire.                                                        *)

\* durations of 0, 2^i and 2^(i+1) - 1 seconds for i at the ends of the
\* 32-bit and 64-bit ranges, each with 0, 1, 500_000_000 and 999_999_999
\* nanoseconds on top
DurationSamples ==
    [secs : {{}} \cup {{i} : i \in {0, 30, 31, 32, 62, 63}}
                 \cup {0..i : i \in {0, 30, 31, 32, 62, 63}},
     nanos : {0, 1, 500000000, 999999999}]

TimespecNext ==
    \/ \E e \in Values, d \in DurationSamples :
           wait_for(Waiter, "f", e, d) /\ UNCHANGED script
    \/ Timeout(Waiter) /\ UNCHANGED script

TimespecSpec == Init /\ [][TimespecNext]_vars

\* C20: the timespec wait_for passes for the duration d has tv_sec equal
\* to the whole seconds of d and tv_nsec equal to its sub-second
\* nanoseconds, with 0 <= tv_nsec < 10^9; as tv_nsec is below 10^9, this is
\* the same as tv_sec * 10^9 + tv_nsec being the nanoseconds of d.
C20_AsTimespec ==
    [][call'[Waiter].name = "wait_for"
          => \A e \in Values, d \in DurationSamples :
                (call'[Waiter].val = e /\ wait_for(Waiter, "f", e, d))
                    => LET ts == call'[Waiter].timeout
                       IN  /\ ts.isptr
                           /\ ts.tv_sec = [neg |-> FALSE, mag |-> d.secs]
                           /\ ts.tv_nsec = d.nanos
                           /\ 0 <= ts.tv_nsec /\ ts.tv_nsec < 10 ^ 9]_vars

\* the same for the durations below 2^63 seconds
C20_AsTimespecBelowSignBit ==
    [][call'[Waiter].name = "wait_for"
          => \A e \in Values, d \in DurationSamples :
                (call'[Waiter].val = e /\ 63 \notin d.secs /\ wait_for(Waiter, "f", e, d))
                    => LET ts == call'[Waiter].timeout
                       IN  /\ ts.isptr
                           /\ ts.tv_sec = [neg |-> FALSE, mag |-> d.secs]
                           /\ ts.tv_nsec = d.nanos
                           /\ 0 <= ts.tv_nsec /\ ts.tv_nsec < 10 ^ 9]_vars

\* wait_for passed a tv_sec of -1 (for a duration of 2^64 - 1 seconds), the
\* kernel rejected it and the call panicked
C20_WitnessNegative ==
    /\ call[Waiter].name = "wait_for"
    /\ call[Waiter].timeout.tv_sec = [neg |-> TRUE, mag |-> {0}]
    /\ ret[Waiter].tag = "Panic"

\* wait_for passed tv_sec = 1 and tv_nsec = 500_000_000 for 1.5 seconds
C20_WitnessOneAndAHalf ==
    /\ call[Waiter].name = "wait_for"
    /\ call[Waiter].timeout.tv_sec = [neg |-> FALSE, mag |-> {0}]
    /\ call[Waiter].timeout.tv_nsec = 500000000
    /\ pc[Waiter] = "blocked"

----------------------------------------------------------------------------
(* OpsSpec: every operation of Futex<S> and PiFutex<S> is called.  The     *)
(* first thread calls the waits on the cell f, the last thread the wakes   *)
(* and requeues from f and the lock operations on the PI cell p, each with *)
(* a deadline on either clock where it takes one; both unlock p, and their *)
(* timers may expire.                                                      *)

OpsNext ==
    \/ \E e \in Values : wait(Waiter, "f", e) /\ UNCHANGED script
    \/ \E e \in Values : wait_for(Waiter, "f", e, ShortDuration) /\ UNCHANGED script
    \/ \E e \in Values : wait_bitset(Waiter, "f", e, {0}) /\ UNCHANGED script
    \/ \E e \in Values, k \in {"Instant", "SystemTime"} :
           wait_bitset_until(Waiter, "f", e, {0}, Deadline(k)) /\ UNCHANGED script
    \/ \E e \in Values : wait_requeue_pi(Waiter, "f", e, "p") /\ UNCHANGED script
    \/ \E e \in Values, k \in {"Instant", "SystemTime"} :
           wait_requeue_pi_until(Waiter, "f", e, "p", Deadline(k)) /\ UNCHANGED script
    \/ \E c \in PlainCells : wake(Waker, c, 1) /\ UNCHANGED script
    \/ wake_bitset(Waker, "f", 1, {0}) /\ UNCHANGED script
    \/ requeue(Waker, "f", 0, "g", 1) /\ UNCHANGED script
    \/ \E e \in Values : cmp_requeue(Waker, "f", e, 0, "g", 1) /\ UNCHANGED script
    \/ wake_op(Waker, "f", 1, "g", Op_add(Op_new(0, 1).bits, Cmp_new(0, 0).bits), 1)
           /\ UNCHANGED script
    \/ \E e \in Values : cmp_requeue_pi(Waker, "f", e, "p", 1) /\ UNCHANGED script
    \/ lock_pi(Waker, "p") /\ UNCHANGED script
    \/ \E k \in {"Instant", "SystemTime"} :
           lock_pi_until(Waker, "p", Deadline(k)) /\ UNCHANGED script
    \/ trylock_pi(Waker, "p") /\ UNCHANGED script
    \/ \E t \in {Waiter, Waker} : unlock_pi(t, "p") /\ UNCHANGED script
    \/ \E t \in {Waiter, Waker} : Timeout(t) /\ UNCHANGED script

OpsSpec == Init /\ [][OpsNext]_vars

\* the clock flag and the timespec that belong to a deadline on clock k
ClockFlagOf(k) == IF k = "SystemTime" THEN FUTEX_CLOCK_REALTIME ELSE 0
PointsAt(slot, k) ==
    /\ slot.isptr
    /\ slot.tv_sec = [neg |-> FALSE, mag |-> Deadline(k).since_epoch.secs]
    /\ slot.tv_nsec = Deadline(k).since_epoch.nanos

\* C21: wait_bitset_until and wait_requeue_pi_until pass an op-code whose
\* clock bit is FUTEX_CLOCK_REALTIME for a SystemTime deadline and 0 for an
\* Instant, with a pointer to the timespec of the same deadline;
\* lock_pi_until passes that timespec too, never sets the clock bit, and
\* names the clock by the operation: FUTEX_LOCK_PI for a SystemTime,
\* FUTEX_LOCK_PI2 for an Instant.
C21_ClockAndTimespec ==
    [][/\ call'[Waiter].name = "wait_bitset_until"
            => \A e \in Values, k \in {"Instant", "SystemTime"} :
                  wait_bitset_until(Waiter, "f", e, {0}, Deadline(k))
                      => /\ BitAnd(AsU32(call'[Waiter].futex_op), U32(FUTEX_CLOCK_REALTIME))
                             = U32(ClockFlagOf(k))
                         /\ Cmd(call'[Waiter].futex_op) = FUTEX_WAIT_BITSET
                         /\ PointsAt(call'[Waiter].timeout, k)
       /\ call'[Waiter].name = "wait_requeue_pi_until"
            => \A e \in Values, k \in {"Instant", "SystemTime"} :
                  wait_requeue_pi_until(Waiter, "f", e, "p", Deadline(k))
                      => /\ BitAnd(AsU32(call'[Waiter].futex_op), U32(FUTEX_CLOCK_REALTIME))
                             = U32(ClockFlagOf(k))
                         /\ Cmd(call'[Waiter].futex_op) = FUTEX_WAIT_REQUEUE_PI
                         /\ PointsAt(call'[Waiter].timeout, k)
       /\ call'[Waker].name = "lock_pi_until"
            => \A k \in {"Instant", "SystemTime"} :
                  lock_pi_until(Waker, "p", Deadline(k))
                      => /\ BitAnd(AsU32(call'[Waker].futex_op), U32(FUTEX_CLOCK_REALTIME)) = {}
                         /\ Cmd(call'[Waker].futex_op)
                             = (IF k = "SystemTime" THEN FUTEX_LOCK_PI ELSE FUTEX_LOCK_PI2)
                         /\ PointsAt(call'[Waker].timeout, k)]_vars

\* a wait_bitset_until with a SystemTime deadline sleeps with the clock bit
\* set and the deadline's timespec
C21_Witness ==
    /\ call[Waiter].name = "wait_bitset_until" /\ pc[Waiter] = "blocked"
    /\ 8 \in AsU32(call[Waiter].futex_op)
    /\ PointsAt(call[Waiter].timeout, "SystemTime")

\* a lock_pi_until with a SystemTime deadline sleeps in FUTEX_LOCK_PI with
\* the clock bit clear and the deadline's timespec
C21_WitnessLockRealTime ==
    /\ call[Waker].name = "lock_pi_until" /\ pc[Waker] = "blocked"
    /\ Cmd(call[Waker].futex_op) = FUTEX_LOCK_PI
    /\ 8 \notin AsU32(call[Waker].futex_op)
    /\ PointsAt(call[Waker].timeout, "SystemTime")

\* C21 as stated: the op-code of each of the three operations, lock_pi_until
\* included, carries the clock flag of the deadline
C21_OpCarriesClockFlag ==
    [][/\ call'[Waiter].name = "wait_bitset_until"
            => \A e \in Values, k \in {"Instant", "SystemTime"} :
                  wait_bitset_until(Waiter, "f", e, {0}, Deadline(k))
                      => /\ BitAnd(AsU32(call'[Waiter].futex_op), U32(FUTEX_CLOCK_REALTIME))
                             = U32(ClockFlagOf(k))
                         /\ PointsAt(call'[Waiter].timeout, k)
       /\ call'[Waiter].name = "wait_requeue_pi_until"
            => \A e \in Values, k \in {"Instant", "SystemTime"} :
                  wait_requeue_pi_until(Waiter, "f", e, "p", Deadline(k))
                      => /\ BitAnd(AsU32(call'[Waiter].futex_op), U32(FUTEX_CLOCK_REALTIME))
                             = U32(ClockFlagOf(k))
                         /\ PointsAt(call'[Waiter].timeout, k)
       /\ call'[Waker].name = "lock_pi_until"
            => \A k \in {"Instant", "SystemTime"} :
                  lock_pi_until(Waker, "p", Deadline(k))
                      => /\ BitAnd(AsU32(call'[Waker].futex_op), U32(FUTEX_CLOCK_REALTIME))
                             = U32(ClockFlagOf(k))
                         /\ PointsAt(call'[Waker].timeout, k)]_vars

\* the fourth slot holding the number v, and holding a pointer to the
\* timespec of sec seconds (as bits) and nsec nanoseconds
Number(v) == [isptr |-> FALSE, word |-> v, tv_sec |-> [neg |-> FALSE, mag |-> {}], tv_nsec |-> 0]
Pointer(sec, nsec) ==
    [isptr |-> TRUE, word |-> 0, tv_sec |-> [neg |-> FALSE, mag |-> sec], tv_nsec |-> nsec]

\* the call thread t has just made has the op-code base | scope flag |
\* clock, the three sharing no bit so that the sum the code forms is that
\* OR, and the five other slots as given
Passes(t, base, clock, a, v, slot4, a2, v3) ==
    LET c == call'[t]
        flag == IF scope = "Private" THEN U32(FUTEX_PRIVATE_FLAG) ELSE {}
    IN  /\ AsU32(c.futex_op) = BitOr(BitOr(U32(base), flag), U32(clock))
        /\ BitAnd(U32(base), flag) = {}
        /\ BitAnd(U32(base), U32(clock)) = {}
        /\ BitAnd(flag, U32(clock)) = {}
        /\ c.futex_op = base + (IF scope = "Private" THEN FUTEX_PRIVATE_FLAG ELSE 0) + clock
        /\ <<c.uaddr, c.val, c.timeout, c.uaddr2, c.val3>> = <<a, v, slot4, a2, v3>>

\* C22: every operation passes the op-code base id | scope flag | clock
\* flag, where the scope flag is FUTEX_PRIVATE_FLAG for Private and 0 for
\* Shared and the three share no bit; the other five slots are the same
\* for both scopes: they are given here without reference to the scope.
C22_OpCodeIsOr ==
    [][/\ call'[Waiter].name = "wait"
            => \A e \in Values :
                  wait(Waiter, "f", e)
                      => Passes(Waiter, FUTEX_WAIT, 0, "f", e, Number(0), "null", 0)
       /\ call'[Waiter].name = "wait_for"
            => \A e \in Values :
                  wait_for(Waiter, "f", e, ShortDuration)
                      => Passes(Waiter, FUTEX_WAIT, 0, "f", e, Pointer({}, 1), "null", 0)
       /\ call'[Waiter].name = "wait_bitset"
            => \A e \in Values :
                  wait_bitset(Waiter, "f", e, {0})
                      => Passes(Waiter, FUTEX_WAIT_BITSET, 0, "f", e, Number(0), "null", 1)
       /\ call'[Waiter].name = "wait_bitset_until"
            => \A e \in Values, k \in {"Instant", "SystemTime"} :
                  wait_bitset_until(Waiter, "f", e, {0}, Deadline(k))
                      => Passes(Waiter, FUTEX_WAIT_BITSET, ClockFlagOf(k), "f", e,
                                Pointer({0}, 500000000), "null", 1)
       /\ call'[Waiter].name = "wait_requeue_pi"
            => \A e \in Values :
                  wait_requeue_pi(Waiter, "f", e, "p")
                      => Passes(Waiter, FUTEX_WAIT_REQUEUE_PI, 0, "f", e, Number(0), "p", 0)
       /\ call'[Waiter].name = "wait_requeue_pi_until"
            => \A e \in Values, k \in {"Instant", "SystemTime"} :
                  wait_requeue_pi_until(Waiter, "f", e, "p", Deadline(k))
                      => Passes(Waiter, FUTEX_WAIT_REQUEUE_PI, ClockFlagOf(k), "f", e,
                                Pointer({0}, 500000000), "p", 0)
       /\ call'[Waker].name = "wake"
            => \A c \in PlainCells :
                  wake(Waker, c, 1) => Passes(Waker, FUTEX_WAKE, 0, c, 1, Number(0), "null", 0)
       /\ call'[Waker].name = "wake_bitset"
            => (wake_bitset(Waker, "f", 1, {0})
                   => Passes(Waker, FUTEX_WAKE_BITSET, 0, "f", 1, Number(0), "null", 1))
       /\ call'[Waker].name = "requeue"
            => (requeue(Waker, "f", 0, "g", 1)
                   => Passes(Waker, FUTEX_REQUEUE, 0, "f", 0, Number(1), "g", 0))
       /\ call'[Waker].name = "cmp_requeue"
            => \A e \in Values :
                  cmp_requeue(Waker, "f", e, 0, "g", 1)
                      => Passes(Waker, FUTEX_CMP_REQUEUE, 0, "f", 0, Number(1), "g", e)
       /\ call'[Waker].name = "wake_op"
            => (wake_op(Waker, "f", 1, "g", Op_add(Op_new(0, 1).bits, Cmp_new(0, 0).bits), 1)
                   => Passes(Waker, FUTEX_WAKE_OP, 0, "f", 1, Number(1), "g", Pow2(12)))
       /\ call'[Waker].name = "cmp_requeue_pi"
            => \A e \in Values :
                  cmp_requeue_pi(Waker, "f", e, "p", 1)
                      => Passes(Waker, FUTEX_CMP_REQUEUE_PI, 0, "f", 1, Number(1), "p", e)
       /\ call'[Waker].name = "lock_pi"
            => (lock_pi(Waker, "p")
                   => Passes(Waker, FUTEX_LOCK_PI, 0, "p", 0, Number(0), "null", 0))
       /\ call'[Waker].name = "lock_pi_until"
            => \A k \in {"Instant", "SystemTime"} :
                  lock_pi_until(Waker, "p", Deadline(k))
                      => Passes(Waker,
                                IF k = "SystemTime" THEN FUTEX_LOCK_PI ELSE FUTEX_LOCK_PI2, 0,
                                "p", 0, Pointer({0}, 500000000), "null", 0)
       /\ call'[Waker].name = "trylock_pi"
            => (trylock_pi(Waker, "p")
                   => Passes(Waker, FUTEX_TRYLOCK_PI, 0, "p", 0, Number(0), "null", 0))
       /\ \A t \in {Waiter, Waker} :
            call'[t].name = "unlock_pi"
                => (unlock_pi(t, "p")
                       => Passes(t, FUTEX_UNLOCK_PI, 0, "p", 0, Number(0), "null", 0))]_vars

\* a Private cell: wait_bitset_until with a SystemTime deadline passed the
\* op-code with the bits of 9, 128 and 256
C22_Witness ==
    /\ scope = "Private"
    /\ call[Waiter].name = "wait_bitset_until"
    /\ AsU32(call[Waiter].futex_op) = {0, 3, 7, 8}

\* a Shared cell: the same call passed the op-code with the bits of 9 and
\* 256 and the same five other slots
C22_WitnessShared ==
    /\ scope = "Shared"
    /\ call[Waiter].name = "wait_bitset_until"
    /\ AsU32(call[Waiter].futex_op) = {0, 3, 8}
    /\ call[Waiter].timeout = Pointer({0}, 500000000)

----------------------------------------------------------------------------
\* the threads to which a lock operation returns Ok(()) in this step (the
\* outcome of a thread is kept for one step only), and the one whose
\* unlock_pi does
LockedNow ==
    {t \in Threads : /\ call'[t].name \in {"lock_pi", "lock_pi_until", "trylock_pi"}
                     /\ pc'[t] = "ready" /\ ret'[t] = OkUnit}
UnlockedNow ==
    {t \in Threads : call'[t].name = "unlock_pi" /\ pc'[t] = "ready" /\ ret'[t] = OkUnit}

\* C23: under LockSpec the TID bits of the PI cell p name the one thread
\* that holds the lock, or are 0.  A lock_pi, lock_pi_until or trylock_pi
\* returns Ok(()) to thread T only in a step that starts with the lock
\* free, or in which its holder unlocks, and that step makes the TID bits
\* T's id; from then on they change only in the step in which T's
\* unlock_pi returns Ok(()), to 0 or to the id of the thread that is
\* returned Ok(()) in that step; unlock_pi returns Ok(()) to the holder
\* only.  Hence between T's lock and T's unlock no other lock returns Ok.
C23_MutualExclusion ==
    [][LET old == TidOf(value["p"])
           new == TidOf(value'["p"])
       IN  /\ \A t \in LockedNow :
                /\ new = Tid(t)
                /\ (old = 0 \/ \E u \in UnlockedNow : old = Tid(u) /\ u # t)
           /\ Cardinality(LockedNow) <= 1
           /\ \A u \in UnlockedNow : old = Tid(u)
           /\ new # old => \/ (old = 0 /\ \E t \in LockedNow : new = Tid(t))
                            \/ /\ \E u \in UnlockedNow : old = Tid(u)
                               /\ (new = 0 \/ \E t \in LockedNow : new = Tid(t))
           /\ new = 0 => queue'["p"] = <<>>]_vars

\* one thread holds the lock and the trylock_pi of another has just
\* returned Err(TryAgain)
C23_Witness ==
    \E t, u \in Threads :
        /\ t # u /\ TidOf(value["p"]) = Tid(u)
        /\ call[t].name = "trylock_pi" /\ ret[t] = Fail("TryAgain")

\* an unlock_pi handed the lock to a thread sleeping in lock_pi_until
C23_WitnessHandover ==
    \E t, u \in Threads :
        /\ t # u /\ TidOf(value["p"]) = Tid(t)
        /\ call[t].name = "lock_pi_until" /\ ret[t] = OkUnit /\ pc[t] = "ready"
        /\ call[u].name = "unlock_pi" /\ ret[u] = OkUnit

----------------------------------------------------------------------------
\* C24: under OpsSpec a call of wait, wait_for, wait_bitset,
\* wait_bitset_until, wake, wake_bitset, requeue or cmp_requeue leaves the
\* value of every cell as it was, and a call of wake_op from f with the
\* second cell g leaves the value of every cell but g as it was.
C24_Frame ==
    [][/\ call'[Waiter].name \in {"wait", "wait_for", "wait_bitset", "wait_bitset_until"}
            => \A e \in Values :
                  (\/ wait(Waiter, "f", e)
                   \/ wait_for(Waiter, "f", e, ShortDuration)
                   \/ wait_bitset(Waiter, "f", e, {0})
                   \/ \E k \in {"Instant", "SystemTime"} :
                         wait_bitset_until(Waiter, "f", e, {0}, Deadline(k)))
                      => value' = value
       /\ call'[Waker].name \in {"wake", "wake_bitset", "requeue", "cmp_requeue"}
            => ((\/ \E c \in PlainCells : wake(Waker, c, 1)
                 \/ wake_bitset(Waker, "f", 1, {0})
                 \/ requeue(Waker, "f", 0, "g", 1)
                 \/ \E e \in Values : cmp_requeue(Waker, "f", e, 0, "g", 1))
                    => value' = value)
       /\ call'[Waker].name = "wake_op"
            => (wake_op(Waker, "f", 1, "g", Op_add(Op_new(0, 1).bits, Cmp_new(0, 0).bits), 1)
                   => \A c \in Cells \ {"g"} : value'[c] = value[c])]_vars

\* a wake_op has set the second cell g from 0 to 1 and woken the waiter of
\* f, whose value is still 0
C24_Witness ==
    /\ call[Waker].name = "wake_op" /\ ret[Waker] = OkCount(1)
    /\ seen[Waker] = 0 /\ value["g"] = 1 /\ value["f"] = 0
    /\ pc[Waiter] = "ready" /\ ret[Waiter] = OkUnit /\ cause[Waiter] = "wake"

\* a requeue has moved the waiter of f to g with both values as they were
C24_WitnessRequeue ==
    /\ call[Waker].name = "requeue" /\ ret[Waker] = OkCount(1)
    /\ queue["g"] = <<Waiter>> /\ value["f"] = 1 /\ value["g"] = 0

====
